---- MODULE Spec2Model ----
(***************************************************************************)
(* Model of the voice-utterance interpretation engine of JuzGoFoo          *)
(* (src/nlp-handler.js, class NLPHandler).                                 *)
(*                                                                         *)
(* Strings are TLA+ strings; a character is a string of length one.        *)
(* JavaScript numbers are modelled as exact rationals [num, den]; the      *)
(* value 0/0 (den = 0) is NaN, and every comparison with NaN is false.     *)
(***************************************************************************)
EXTENDS Integers, Sequences, FiniteSets, TLC

VARIABLES
  handler,       \* the NLPHandler instance: the fields the constructor sets
  text,          \* argument of interpret(text)
  pc,            \* "idle" before the call, "done" after it returned
  calls,         \* methods interpret has invoked, in call order
  metaCommand,   \* local of interpret: result of detectMetaCommand
  correctedText, \* local of interpret
  intent,        \* local of interpret: result of extractIntent
  filePaths,     \* local of interpret
  result,        \* return value of interpret
  str1, str2,    \* arguments of levenshteinDistance(str1, str2)
  distance,      \* return value of levenshteinDistance
  sim,           \* the similarity expression built on distance
  correctedTwice, \* local "corrected" of extractIntent, called by interpret
  scores,        \* locals of extractIntent: the counters of each intent
  history,       \* the calls on the handler that have returned, in order
  received,      \* server: the WebSocket messages received, in order
  sent,          \* server: the messages sent to the client, in order
  llmCalls,      \* server: the received messages callLLM was invoked for
  awaiting,      \* server: the callLLM invocations that have not settled
  client,        \* voice client: the globals of the page script
  monitor,       \* the TokenMonitor instance: the fields the methods write
  runs,          \* the processWithLlama invocations past the entry test
  messagesAdded  \* the number of addMessage calls so far

\* the locals of extractIntent, the call history of the handler, and the
\* state of the WebSocket server
classifierVars == <<correctedTwice, scores>>
sessionVars == <<history>>
serverVars == <<received, sent, llmCalls, awaiting>>
clientVars == <<client>>
monitorVars == <<monitor, runs, messagesAdded>>

vars == <<handler, text, pc, calls, metaCommand, correctedText, intent, filePaths,
          result, str1, str2, distance, sim, classifierVars, sessionVars,
          serverVars, clientVars, monitorVars>>

(***************************************************************************)
(* Bounds of the checked input space.                                      *)
(***************************************************************************)
MaxLen == 3      \* longest string drawn for levenshteinDistance
MaxWords == 2    \* longest generated utterance, in vocabulary words

(***************************************************************************)
(* String primitives of the JavaScript runtime.                            *)
(***************************************************************************)
charAt(s, i) == SubSeq(s, i, i)

\* String.prototype.includes
includes(s, p) == \E i \in 1..(Len(s) - Len(p) + 1) : SubSeq(s, i, i + Len(p) - 1) = p

\* s starts with p at (1-based) position i
matchAt(s, p, i) == i + Len(p) - 1 <= Len(s) /\ SubSeq(s, i, i + Len(p) - 1) = p

LowerLetters == {"a","b","c","d","e","f","g","h","i","j","k","l","m",
                 "n","o","p","q","r","s","t","u","v","w","x","y","z"}
UpperToLower == [A |-> "a", B |-> "b", C |-> "c", D |-> "d", E |-> "e",
                 F |-> "f", G |-> "g", H |-> "h", I |-> "i", J |-> "j",
                 K |-> "k", L |-> "l", M |-> "m", N |-> "n", O |-> "o",
                 P |-> "p", Q |-> "q", R |-> "r", S |-> "s", T |-> "t",
                 U |-> "u", V |-> "v", W |-> "w", X |-> "x", Y |-> "y",
                 Z |-> "z"]
UpperLetters == DOMAIN UpperToLower
Digits == {"0","1","2","3","4","5","6","7","8","9"}

\* regex class \w (ASCII only) and \s
isWordChar(c) == c \in LowerLetters \cup UpperLetters \cup Digits \cup {"_"}
isSpace(c) == c \in {" ", "\t", "\n", "\r"}

Max2(p, q) == IF p >= q THEN p ELSE q
Min2(p, q) == IF p <= q THEN p ELSE q

(***************************************************************************)
(* Numbers.                                                                *)
(***************************************************************************)
RECURSIVE gcd(_, _)
gcd(p, q) == IF q = 0 THEN p ELSE gcd(q, p % q)

Num(n, d) == IF d = 0 THEN [num |-> 0, den |-> 0]
             ELSE LET g == gcd(n, d) IN [num |-> n \div g, den |-> d \div g]
NaN == [num |-> 0, den |-> 0]
isNaN(x) == x.den = 0
Zero == Num(0, 1)
One == Num(1, 1)
Half == Num(1, 2)
Add(x, y) == IF isNaN(x) \/ isNaN(y) THEN NaN
             ELSE Num(x.num * y.den + y.num * x.den, x.den * y.den)
Mul(x, y) == IF isNaN(x) \/ isNaN(y) THEN NaN
             ELSE Num(x.num * y.num, x.den * y.den)
\* x >= y and x > y of JavaScript: false when either side is NaN
Geq(x, y) == ~isNaN(x) /\ ~isNaN(y) /\ x.num * y.den >= y.num * x.den
Gt(x, y) == ~isNaN(x) /\ ~isNaN(y) /\ x.num * y.den > y.num * x.den
\* x === y of JavaScript
NumEq(x, y) == ~isNaN(x) /\ ~isNaN(y) /\ x = y

(***************************************************************************)
(* levenshteinDistance(str1, str2): the matrix has one row per prefix of   *)
(* str2 and one column per prefix of str1.                                 *)
(***************************************************************************)
\* matrixCell with a deletion that costs two edits
matrixCellCostlyDelete(s1, s2, prev, cur, i, j) ==
  IF charAt(s2, i) = charAt(s1, j) THEN prev[j]
  ELSE Min2(prev[j] + 1, Min2(cur[j] + 2, prev[j + 1] + 1))

\* matrixCell with a substitution that costs two edits
matrixCellCostlySubstitution(s1, s2, prev, cur, i, j) ==
  IF charAt(s2, i) = charAt(s1, j) THEN prev[j]
  ELSE Min2(prev[j] + 2, Min2(cur[j] + 1, prev[j + 1] + 1))

\* the cell matrix[i][j], given row i-1 (prev) and the cells 0..j-1 of row
\* i (cur); sequences are 1-based, so matrix[i][j] is element j+1 of row i
matrixCell(s1, s2, prev, cur, i, j) ==
  IF charAt(s2, i) = charAt(s1, j) THEN prev[j]
  ELSE Min2(prev[j] + 1, Min2(cur[j] + 1, prev[j + 1] + 1))

\* inner loop over j: cur holds matrix[i][0..Len(cur)-1]
RECURSIVE matrixRow(_, _, _, _, _)
matrixRow(s1, s2, prev, cur, i) ==
  IF Len(cur) > Len(s1) THEN cur
  ELSE matrixRow(s1, s2, prev,
                 Append(cur, matrixCell(s1, s2, prev, cur, i, Len(cur))), i)

\* outer loop over i: matrix holds the rows 0..Len(matrix)-1
RECURSIVE matrixRows(_, _, _)
matrixRows(s1, s2, matrix) ==
  IF Len(matrix) > Len(s2) THEN matrix
  ELSE matrixRows(s1, s2,
         Append(matrix,
                matrixRow(s1, s2, matrix[Len(matrix)], <<Len(matrix)>>,
                          Len(matrix))))

\* row 0 is 0..str1.length, column 0 of row i is i
levenshteinDistance(s1, s2) ==
  matrixRows(s1, s2,
             << [j \in 1..(Len(s1) + 1) |-> j - 1] >>)[Len(s2) + 1][Len(s1) + 1]

\* 1 - (levenshteinDistance(a, b) / Math.max(a.length, b.length))
similarity(a, b) ==
  LET m == Max2(Len(a), Len(b))
  IN Num(m - levenshteinDistance(a, b), m)

(***************************************************************************)
(* Configuration tables built by the constructor.  Object.entries iterates *)
(* string keys in insertion order, so each table is a sequence.            *)
(***************************************************************************)
whisperCorrections == <<
  [word |-> "read", heard |-> <<"red", "reed", "rid">>],
  [word |-> "write", heard |-> <<"right", "rite">>],
  [word |-> "file", heard |-> <<"file", "while", "style">>],
  [word |-> "delete", heard |-> <<"delete", "d lead", "the lead">>],
  [word |-> "create", heard |-> <<"create", "great">>],
  [word |-> "open", heard |-> <<"open", "opening">>],
  [word |-> "close", heard |-> <<"close", "clothes">>],
  [word |-> "list", heard |-> <<"list", "lists", "missed">>],
  [word |-> "show", heard |-> <<"show", "so", "sew">>],
  [word |-> "find", heard |-> <<"find", "fine", "signed">>],
  [word |-> "search", heard |-> <<"search", "surge", "urch">>],
  [word |-> "run", heard |-> <<"run", "one">>],
  [word |-> "execute", heard |-> <<"execute", "exit cute">>],
  [word |-> "make", heard |-> <<"make", "lake">>],
  [word |-> "new", heard |-> <<"new", "knew", "gnu">>],
  [word |-> "save", heard |-> <<"save", "shave">>],
  [word |-> "copy", heard |-> <<"copy", "coffee">>],
  [word |-> "move", heard |-> <<"move", "moved", "love">>],
  [word |-> "install", heard |-> <<"install", "in stall">>],
  [word |-> "terminal", heard |-> <<"terminal", "term null">>],
  [word |-> "directory", heard |-> <<"directory", "directly">>],
  [word |-> "folder", heard |-> <<"folder", "older">>] >>

intentsTable == <<
  [name |-> "file_read",
   keywords |-> <<"read", "show", "display", "open", "view", "see", "look at", "cat", "check">>,
   objects |-> <<"file", "document", "code", "script", "text">>,
   confidence |-> Num(6, 10)],
  [name |-> "file_write",
   keywords |-> <<"write", "create", "make", "save", "edit", "modify", "update", "change">>,
   objects |-> <<"file", "document", "code", "script">>,
   confidence |-> Num(6, 10)],
  [name |-> "file_delete",
   keywords |-> <<"delete", "remove", "erase", "trash", "kill">>,
   objects |-> <<"file", "document", "code", "folder">>,
   confidence |-> Num(7, 10)],
  [name |-> "file_list",
   keywords |-> <<"list", "show", "display", "see", "what", "ls", "dir">>,
   objects |-> <<"files", "directories", "folder", "directory", "contents">>,
   confidence |-> Num(6, 10)],
  [name |-> "execute_command",
   keywords |-> <<"run", "execute", "start", "launch", "perform", "do">>,
   objects |-> <<"command", "script", "program", "code">>,
   confidence |-> Num(6, 10)],
  [name |-> "search",
   keywords |-> <<"find", "search", "look for", "locate", "where", "grep">>,
   objects |-> <<"file", "text", "code", "string", "word">>,
   confidence |-> Num(6, 10)],
  [name |-> "install",
   keywords |-> <<"install", "add", "get", "download", "npm", "pip", "apt">>,
   objects |-> <<"package", "library", "module", "dependency">>,
   confidence |-> Num(7, 10)] >>

metaCommandsTable == <<
  [action |-> "reset", patterns |-> <<"reset", "clear", "start over", "new conversation", "restart">>],
  [action |-> "save", patterns |-> <<"save chat", "export chat", "download chat", "save conversation">>],
  [action |-> "scroll_up", patterns |-> <<"scroll up", "go up", "move up">>],
  [action |-> "scroll_down", patterns |-> <<"scroll down", "go down", "move down">>],
  [action |-> "scroll_top", patterns |-> <<"scroll to top", "go to top", "top">>],
  [action |-> "scroll_bottom", patterns |-> <<"scroll to bottom", "go to bottom", "bottom">>],
  [action |-> "copy", patterns |-> <<"copy response", "copy message", "copy last", "copy that">>],
  [action |-> "help", patterns |-> <<"help", "what can you do", "show help", "commands">>] >>

\* new NLPHandler(): the instance after the constructor has run
NLPHandler ==
  [whisperCorrections |-> whisperCorrections,
   intents |-> intentsTable,
   metaCommands |-> metaCommandsTable]

\* this.intents and this.metaCommands, as the methods read them
intents == handler.intents
metaCommands == handler.metaCommands

\* the phrase replacements of correctWhisperErrors, in call order; a rule
\* is /\b<pattern>\b/g, or /\b<pattern>/g when wordEnd is FALSE
correctionRules == <<
  [pattern |-> "exit cute", replacement |-> "execute", wordEnd |-> TRUE],
  [pattern |-> "in stall", replacement |-> "install", wordEnd |-> TRUE],
  [pattern |-> "term null", replacement |-> "terminal", wordEnd |-> TRUE],
  [pattern |-> "d lead", replacement |-> "delete", wordEnd |-> TRUE],
  [pattern |-> "the lead", replacement |-> "delete", wordEnd |-> TRUE],
  [pattern |-> "file path", replacement |-> "filepath", wordEnd |-> TRUE],
  [pattern |-> "cd ", replacement |-> "cd ", wordEnd |-> FALSE],
  [pattern |-> "git ", replacement |-> "git ", wordEnd |-> FALSE] >>

(***************************************************************************)
(* correctWhisperErrors(text)                                              *)
(***************************************************************************)
RECURSIVE lowerFrom(_, _)
lowerFrom(s, i) ==
  IF i > Len(s) THEN ""
  ELSE (IF charAt(s, i) \in UpperLetters THEN UpperToLower[charAt(s, i)]
        ELSE charAt(s, i)) \o lowerFrom(s, i + 1)

toLowerCase(s) == lowerFrom(s, 1)

\* regex assertion \b between the characters k-1 and k of s
wordBoundary(s, k) ==
  LET before == k > 1 /\ isWordChar(charAt(s, k - 1))
      after == k <= Len(s) /\ isWordChar(charAt(s, k))
  IN before # after

\* ruleMatchAt for a pattern without the \b assertions: a literal substring
ruleMatchAtLiteral(s, rule, i) == matchAt(s, rule.pattern, i)

\* /\b<pattern>\b/ or /\b<pattern>/ matches s at position i
ruleMatchAt(s, rule, i) ==
  /\ matchAt(s, rule.pattern, i)
  /\ wordBoundary(s, i)
  /\ rule.wordEnd => wordBoundary(s, i + Len(rule.pattern))

\* replaceFrom for a regex without the g flag: only the leftmost match is
\* replaced
RECURSIVE replaceFirstFrom(_, _, _)
replaceFirstFrom(s, rule, i) ==
  IF i > Len(s) THEN ""
  ELSE IF ruleMatchAt(s, rule, i)
       THEN rule.replacement \o SubSeq(s, i + Len(rule.pattern), Len(s))
       ELSE charAt(s, i) \o replaceFirstFrom(s, rule, i + 1)

\* String.prototype.replace with a global regex: leftmost matches, scanning
\* resumes after each match
RECURSIVE replaceFrom(_, _, _)
replaceFrom(s, rule, i) ==
  IF i > Len(s) THEN ""
  ELSE IF ruleMatchAt(s, rule, i)
       THEN rule.replacement \o replaceFrom(s, rule, i + Len(rule.pattern))
       ELSE charAt(s, i) \o replaceFrom(s, rule, i + 1)

RECURSIVE applyRules(_, _)
applyRules(s, r) ==
  IF r > Len(correctionRules) THEN s
  ELSE applyRules(replaceFrom(s, correctionRules[r], 1), r + 1)

correctWhisperErrors(s) == applyRules(toLowerCase(s), 1)

(***************************************************************************)
(* detectMetaCommand(text)                                                 *)
(***************************************************************************)
\* the threshold before it was raised to 0.85
thresholdBeforeIncrease == Num(70, 100)

threshold == Num(85, 100)

null == [isNull |-> TRUE]

\* detectFrom without the early return: the last qualifying pattern wins
detectLastFrom(original, corrected, c, p) ==
  LET later == {q \in (c..Len(metaCommands)) \X (1..5) :
                  /\ q[2] <= Len(metaCommands[q[1]].patterns)
                  /\ q[1] > c \/ q[2] >= p}
      hits == {q \in later :
                 \/ includes(corrected, metaCommands[q[1]].patterns[q[2]])
                 \/ Geq(similarity(corrected,
                                   metaCommands[q[1]].patterns[q[2]]),
                        threshold)}
  IN IF hits = {} THEN null
     ELSE LET q == CHOOSE h \in hits :
                     \A g \in hits :
                       g[1] < h[1] \/ (g[1] = h[1] /\ g[2] <= h[2])
              pattern == metaCommands[q[1]].patterns[q[2]]
          IN [isCommand |-> TRUE, action |-> metaCommands[q[1]].action,
              confidence |-> IF includes(corrected, pattern) THEN One
                             ELSE similarity(corrected, pattern),
              original |-> original]

\* the two nested for loops, entered at command c and pattern p
RECURSIVE detectFrom(_, _, _, _)
detectFrom(original, corrected, c, p) ==
  IF c > Len(metaCommands) THEN null
  ELSE IF p > Len(metaCommands[c].patterns)
       THEN detectFrom(original, corrected, c + 1, 1)
  ELSE LET pattern == metaCommands[c].patterns[p] IN
       IF includes(corrected, pattern)
       THEN [isCommand |-> TRUE, action |-> metaCommands[c].action,
             confidence |-> One, original |-> original]
       ELSE IF Geq(similarity(corrected, pattern), threshold)
       THEN [isCommand |-> TRUE, action |-> metaCommands[c].action,
             confidence |-> similarity(corrected, pattern),
             original |-> original]
       ELSE detectFrom(original, corrected, c, p + 1)

detectMetaCommand(s) == detectFrom(s, correctWhisperErrors(s), 1, 1)

(***************************************************************************)
(* extractIntent(text)                                                     *)
(***************************************************************************)
SetMin(S) == CHOOSE x \in S : \A y \in S : x <= y

\* [^\s/]
isSegmentChar(c) == ~isSpace(c) /\ c # "/"
\* [\w\-./]
isPathChar(c) == isWordChar(c) \/ c \in {"-", ".", "/"}
\* [\w\-]
isNameChar(c) == isWordChar(c) \/ c = "-"

\* membership of a character in a named regex character class
inClass(class, c) ==
  CASE class = "\\s" -> isSpace(c)
    [] class = "\\S" -> ~isSpace(c)
    [] class = "\\w" -> isWordChar(c)
    [] class = "[^\\s/]" -> isSegmentChar(c)
    [] class = "[\\w\\-./]" -> isPathChar(c)
    [] class = "[\\w\\-]" -> isNameChar(c)

\* a greedy run class+ from position i: the first position at or after i
\* whose character is not in the class (Len(s) + 1 when the run reaches the
\* end of s)
runEnd(s, i, class) ==
  SetMin({k \in i..(Len(s) + 1) : k = Len(s) + 1 \/ ~inClass(class, charAt(s, k))})

\* String.prototype.split(/\s+/), for the part of s that starts at i
RECURSIVE splitFrom(_, _)
splitFrom(s, i) ==
  LET e == runEnd(s, i, "\\S")
      word == SubSeq(s, i, e - 1)
  IN IF e > Len(s) THEN <<word>>
     ELSE <<word>> \o splitFrom(s, runEnd(s, e, "\\s"))

split(s) == splitFrom(s, 1)

\* a word threshold that lets half-similar words count
wordThresholdHalf == Num(5, 10)

wordThreshold == Num(7, 10)

\* what one pass of the body of "for (const word of words)" adds to the
\* match counter and to the score, for one keyword or object: s is the
\* similarity of the word and the item, substring tells whether the whole
\* text includes the item, weight is 1 for a keyword and 0.5 for an object
wordAdds(s, substring, weight) ==
  [matches |-> (IF Geq(s, wordThreshold) THEN 1 ELSE 0)
                 + (IF substring THEN 1 ELSE 0),
   score |-> Add(IF Geq(s, wordThreshold) THEN Mul(s, weight) ELSE Zero,
                 IF substring THEN weight ELSE Zero)]

wordBody(corrected, word, item, weight) ==
  wordAdds(similarity(word, item), includes(corrected, item), weight)

plus(x, y) == [matches |-> x.matches + y.matches,
               score |-> Add(x.score, y.score)]

\* "for (const word of words)", from word w on
RECURSIVE wordLoop(_, _, _, _, _)
wordLoop(corrected, words, item, weight, w) ==
  IF w > Len(words) THEN [matches |-> 0, score |-> Zero]
  ELSE plus(wordBody(corrected, words[w], item, weight),
            wordLoop(corrected, words, item, weight, w + 1))

\* "for (const keyword of intentData.keywords)" / "for (const obj of
\* intentData.objects)", from item k on
RECURSIVE itemLoop(_, _, _, _, _)
itemLoop(corrected, words, items, weight, k) ==
  IF k > Len(items) THEN [matches |-> 0, score |-> Zero]
  ELSE plus(wordLoop(corrected, words, items[k], weight, 1),
            itemLoop(corrected, words, items, weight, k + 1))

\* score, keywordMatches and objectMatches of one intent
intentScore(corrected, words, intentData) ==
  LET kw == itemLoop(corrected, words, intentData.keywords, One, 1)
      ob == itemLoop(corrected, words, intentData.objects, Half, 1)
  IN [score |-> Add(kw.score, ob.score), keywordMatches |-> kw.matches,
      objectMatches |-> ob.matches]

\* score / (keywords.length + objects.length)
intentConfidence(score, intentData) ==
  Mul(score, Num(1, Len(intentData.keywords) + Len(intentData.objects)))

\* bestAfter without the test "keywordMatches > 0"
bestAfterNoKeywordTest(n, sc, confidence, best) ==
  IF /\ Geq(confidence, intents[n].confidence)
     /\ Gt(confidence, best.bestScore)
  THEN [bestScore |-> confidence,
        bestIntent |-> [intent |-> intents[n].name,
                        confidence |-> confidence,
                        keywordMatches |-> sc.keywordMatches,
                        objectMatches |-> sc.objectMatches]]
  ELSE best

\* bestAfter with "confidence >= bestScore": a later intent wins a tie
bestAfterLaterWinsTie(n, sc, confidence, best) ==
  IF /\ sc.keywordMatches > 0
     /\ Geq(confidence, intents[n].confidence)
     /\ Geq(confidence, best.bestScore)
  THEN [bestScore |-> confidence,
        bestIntent |-> [intent |-> intents[n].name,
                        confidence |-> confidence,
                        keywordMatches |-> sc.keywordMatches,
                        objectMatches |-> sc.objectMatches]]
  ELSE best

\* bestAfter that keeps the first intent reaching its floor
bestAfterFirstQualifying(n, sc, confidence, best) ==
  IF /\ sc.keywordMatches > 0
     /\ Geq(confidence, intents[n].confidence)
     /\ best.bestIntent = null
  THEN [bestScore |-> confidence,
        bestIntent |-> [intent |-> intents[n].name,
                        confidence |-> confidence,
                        keywordMatches |-> sc.keywordMatches,
                        objectMatches |-> sc.objectMatches]]
  ELSE best

\* "if (keywordMatches > 0) { ... }": the best intent and best score after
\* intent n with the scores sc has been looked at
bestAfter(n, sc, confidence, best) ==
  IF /\ sc.keywordMatches > 0
     /\ Geq(confidence, intents[n].confidence)
     /\ Gt(confidence, best.bestScore)
  THEN [bestScore |-> confidence,
        bestIntent |-> [intent |-> intents[n].name,
                        confidence |-> confidence,
                        keywordMatches |-> sc.keywordMatches,
                        objectMatches |-> sc.objectMatches]]
  ELSE best

intentBody(n, sc, best) ==
  bestAfter(n, sc, intentConfidence(sc.score, intents[n]), best)

\* "for (const [intentName, intentData] of Object.entries(this.intents))",
\* the intents 1..n
RECURSIVE intentLoop(_, _, _)
intentLoop(corrected, words, n) ==
  IF n = 0 THEN [bestScore |-> Zero, bestIntent |-> null]
  ELSE intentBody(n, intentScore(corrected, words, intents[n]),
                  intentLoop(corrected, words, n - 1))

splitAndScore(corrected) ==
  intentLoop(corrected, split(corrected), Len(intents)).bestIntent

extractIntent(s) == splitAndScore(correctWhisperErrors(s))

(***************************************************************************)
(* extractFilePaths(text)                                                  *)
(***************************************************************************)
\* /(?:\/[^\s/]+)+/ at position i
RECURSIVE absoluteEnd(_, _)
absoluteEnd(s, i) ==
  IF /\ i < Len(s)
     /\ charAt(s, i) = "/"
     /\ isSegmentChar(charAt(s, i + 1))
  THEN absoluteEnd(s, runEnd(s, i + 1, "[^\\s/]"))
  ELSE i

\* /(?:\.\/|\.\.\/)[\w\-./]+/ at position i
relativeEnd(s, i) ==
  LET prefix == IF matchAt(s, "./", i) THEN 2
                ELSE IF matchAt(s, "../", i) THEN 3 ELSE 0
      e == runEnd(s, i + prefix, "[\\w\\-./]")
  IN IF prefix > 0 /\ e > i + prefix THEN e ELSE i

\* /\b[\w\-]+\.[\w]+\b/ at position i
fileEnd(s, i) ==
  LET dot == runEnd(s, i, "[\\w\\-]")
      e == runEnd(s, dot + 1, "\\w")
  IN IF /\ wordBoundary(s, i)
        /\ dot > i
        /\ dot < Len(s)
        /\ charAt(s, dot) = "."
        /\ e > dot + 1
        /\ wordBoundary(s, e)
     THEN e ELSE i

\* position after the match of the named pattern that starts at i, or i
\* when the pattern does not match there
patternEnd(pattern, s, i) ==
  CASE pattern = "absolutePattern" -> absoluteEnd(s, i)
    [] pattern = "relativePattern" -> relativeEnd(s, i)
    [] pattern = "filePattern" -> fileEnd(s, i)

\* String.prototype.match with a global regex: the leftmost matches in
\* order, scanning resumes at the end of each match
RECURSIVE matchesFrom(_, _, _)
matchesFrom(pattern, s, i) ==
  IF i > Len(s) THEN <<>>
  ELSE LET e == patternEnd(pattern, s, i)
       IN IF e > i
          THEN <<SubSeq(s, i, e - 1)>> \o matchesFrom(pattern, s, e)
          ELSE matchesFrom(pattern, s, i + 1)

\* unique that keeps the last occurrence of a string instead of the first
RECURSIVE uniqueKeepLast(_, _)
uniqueKeepLast(paths, k) ==
  IF k > Len(paths) THEN <<>>
  ELSE IF \E j \in (k + 1)..Len(paths) : paths[j] = paths[k]
       THEN uniqueKeepLast(paths, k + 1)
       ELSE <<paths[k]>> \o uniqueKeepLast(paths, k + 1)

\* [...new Set(paths)]: first occurrences, in insertion order
RECURSIVE unique(_, _)
unique(paths, k) ==
  IF k > Len(paths) THEN <<>>
  ELSE IF \E j \in 1..(k - 1) : paths[j] = paths[k]
       THEN unique(paths, k + 1)
       ELSE <<paths[k]>> \o unique(paths, k + 1)

extractFilePaths(s) ==
  unique(matchesFrom("absolutePattern", s, 1)
           \o matchesFrom("relativePattern", s, 1)
           \o matchesFrom("filePattern", s, 1), 1)

(***************************************************************************)
(* buildEnhancedPrompt(text, intent, filePaths)                            *)
(***************************************************************************)
getIntentContext(intentName) ==
  CASE intentName = "file_read" -> "read/view a file"
    [] intentName = "file_write" -> "create or edit a file"
    [] intentName = "file_delete" -> "delete a file or folder"
    [] intentName = "file_list" -> "list files in a directory"
    [] intentName = "execute_command" -> "run a command or script"
    [] intentName = "search" -> "find or search for something"
    [] intentName = "install" -> "install a package or dependency"
    [] OTHER -> ""

\* Array.prototype.join(', ')
RECURSIVE join(_, _)
join(paths, k) ==
  IF k > Len(paths) THEN ""
  ELSE IF k = Len(paths) THEN paths[k]
  ELSE paths[k] \o ", " \o join(paths, k + 1)

buildEnhancedPrompt(s, i, paths) ==
  LET context == IF i # null THEN getIntentContext(i.intent) ELSE ""
      prompt == IF context # ""
                THEN s \o "\n\n[Context: User likely wants to " \o context \o "]"
                ELSE s
  IN IF Len(paths) > 0
     THEN prompt \o "\n[Detected file paths: " \o join(paths, 1) \o "]"
     ELSE prompt

(***************************************************************************)
(* interpret(text)                                                         *)
(***************************************************************************)
\* String.prototype.trim
trim(s) ==
  LET first == runEnd(s, 1, "\\s")
      last == SetMin({k \in first..(Len(s) + 1) :
                        \A j \in k..Len(s) : isSpace(charAt(s, j))})
  IN SubSeq(s, first, last - 1)

\* the check without the trim
isEmptyInputNoTrim(s) == s = ""

\* !text || text.trim().length === 0
isEmptyInput(s) == s = "" \/ Len(trim(s)) = 0

\* a global floor above the per-intent floors
globalFloorHigh == Num(9, 10)

\* a global floor between the lowest per-intent floor and the next one
globalFloorAboveLowestFloor == Num(65, 100)

\* "intent.confidence >= 0.5"
globalFloor == Num(5, 10)

\* taskOrConversation without the "intent &&" guard: reading the confidence
\* of a null intent throws
taskOrConversationNoNullCheck(original, corrected, i, paths) ==
  IF i = null THEN [type |-> "TypeError"]
  ELSE IF Geq(i.confidence, globalFloor)
  THEN [type |-> "task", original |-> original, corrected |-> corrected,
        intent |-> i.intent, confidence |-> i.confidence,
        filePaths |-> paths,
        enhancedPrompt |-> buildEnhancedPrompt(corrected, i, paths)]
  ELSE [type |-> "conversation", original |-> original,
        corrected |-> corrected, filePaths |-> paths,
        enhancedPrompt |-> corrected]

\* taskOrConversation with the prompt of a Conversation built like the prompt
\* of a Task
taskOrConversationAnnotated(original, corrected, i, paths) ==
  IF i # null /\ Geq(i.confidence, globalFloor)
  THEN [type |-> "task", original |-> original, corrected |-> corrected,
        intent |-> i.intent, confidence |-> i.confidence,
        filePaths |-> paths,
        enhancedPrompt |-> buildEnhancedPrompt(corrected, i, paths)]
  ELSE [type |-> "conversation", original |-> original,
        corrected |-> corrected, filePaths |-> paths,
        enhancedPrompt |-> buildEnhancedPrompt(corrected, null, paths)]

\* the two return statements after the locals are computed
taskOrConversation(original, corrected, i, paths) ==
  IF i # null /\ Geq(i.confidence, globalFloor)
  THEN [type |-> "task", original |-> original, corrected |-> corrected,
        intent |-> i.intent, confidence |-> i.confidence,
        filePaths |-> paths,
        enhancedPrompt |-> buildEnhancedPrompt(corrected, i, paths)]
  ELSE [type |-> "conversation", original |-> original,
        corrected |-> corrected, filePaths |-> paths,
        enhancedPrompt |-> corrected]

\* value of a local that the call has not assigned
unset == [isUnset |-> TRUE]

\* interpret(text) as a value: what the call returns
interpretAfterCorrect(s, c) ==
  taskOrConversation(s, c, extractIntent(c), extractFilePaths(s))

interpretAfterDetect(s, m) ==
  IF m # null
  THEN [type |-> "meta_command", isCommand |-> m.isCommand,
        action |-> m.action, confidence |-> m.confidence,
        original |-> m.original]
  ELSE interpretAfterCorrect(s, correctWhisperErrors(s))

interpret(s) ==
  IF isEmptyInput(s) THEN [type |-> "empty"]
  ELSE interpretAfterDetect(s, detectMetaCommand(s))

(***************************************************************************)
(* The voice client and the token monitor as they are after loading.       *)
(***************************************************************************)
\* "let isListening = false; let wakeWordEnabled = false; ...": the globals
\* of the page script.  Two logs stand beside them: toggled holds the two
\* mode flags as they were after each click on a mode button, performed
\* what handleCommand was called with and the interface behaviour it ran
clientGlobals ==
  [isListening |-> FALSE,
   wakeWordEnabled |-> FALSE,
   conversationalMode |-> FALSE,
   isWaitingForCommand |-> FALSE,
   toggled |-> <<>>,
   performed |-> <<>>]

\* new TokenMonitor(): the fields the constructor sets and the methods write
newTokenMonitor ==
  [currentTokenCount |-> 0,
   conversationBuffer |-> <<>>,
   isProcessing |-> FALSE]

(***************************************************************************)
(* Specification of interpret: one call on each utterance of the input     *)
(* space.                                                                  *)
(***************************************************************************)
\* the inputs of the repository's test table (test-nlp.js, testCases)
TestInputs == {
  "red the file server.js", "right a file called test.txt",
  "show me the contents of package.jason", "create a knew file",
  "the lead that file", "exit cute npm install", "one the server",
  "in stall express", "missed the files in this folder",
  "so me whats in the directory", "list the contents of the older",
  "fine the word todo in my code", "surge for package.json",
  "look for the function called mean", "clear the chat", "start over",
  "save this conversation", "coffee that response", "what files are here",
  "can you show me the code", "I want to make a new script",
  "help me find where I defined this function" }

\* blank inputs, mixed case, surrounding whitespace, non-ASCII text, paths
EdgeInputs == {
  "", " ", "   ", "\t", " \n\t ", "RESET", "Clear", "  top  ", "stop",
  "reset the conversation", "the quick brown fox jumps",
  "open /usr/local/bin/app and ./config.json", "saw conversation",
  "sew conversation", "save my conversation", "scroll to bottop", "go dawn", "clean", "what can you du",
  " show the file ", "show  the\tcode file text", "Read Read Read Read File",
  "café", "montre le résumé.txt", "é",
  "cat ../src/app.js ./a-b.c /etc/hosts x.y.z", "main stall", "In Stall it",
  "run do", "DELETE DELETE DELETE THE FILE",
  "Show Me The Code In Main.JS", "edit file path.txt", "see a.js a.js",
  "open README.md and ./Src/App.js" }

Vocabulary == <<"run", "do", "show", "list", "help", "saw", "conversation">>

\* the sentences of exactly n vocabulary words, separated by one space
RECURSIVE SentencesOf(_)
SentencesOf(n) ==
  IF n = 1 THEN {Vocabulary[k] : k \in 1..Len(Vocabulary)}
  ELSE {s \o " " \o Vocabulary[k] :
          s \in SentencesOf(n - 1), k \in 1..Len(Vocabulary)}

Sentences == UNION {SentencesOf(n) : n \in 1..MaxWords}

Utterances == TestInputs \cup EdgeInputs \cup Sentences

Init ==
  /\ handler = NLPHandler
  /\ text \in Utterances
  /\ pc = "idle"
  /\ calls = <<>>
  /\ metaCommand = unset /\ correctedText = unset
  /\ intent = unset /\ filePaths = unset
  /\ result = unset
  /\ str1 = "" /\ str2 = "" /\ distance = -1 /\ sim = NaN
  /\ correctedTwice = unset /\ scores = unset
  /\ history = <<>>
  /\ received = <<>> /\ sent = <<>> /\ llmCalls = <<>> /\ awaiting = {}
  /\ client = clientGlobals
  /\ monitor = newTokenMonitor /\ runs = <<>> /\ messagesAdded = 0

\* interpret with the classification tried before the meta-commands
InterpretClassifyFirst ==
  /\ pc = "idle"
  /\ pc' = "done"
  /\ IF isEmptyInput(text)
     THEN /\ result' = [type |-> "empty"]
          /\ UNCHANGED <<calls, metaCommand, correctedText, intent, filePaths>>
     ELSE \E m \in {detectMetaCommand(text)} :
          \E c \in {correctWhisperErrors(text)} :
          \E i \in {extractIntent(c)} :
          \E f \in {extractFilePaths(text)} :
            /\ metaCommand' = m
            /\ correctedText' = c
            /\ intent' = i
            /\ filePaths' = f
            /\ calls' = <<"correctWhisperErrors", "extractIntent",
                          "extractFilePaths", "detectMetaCommand">>
            /\ result' = IF i = null /\ m # null
                         THEN [type |-> "meta_command",
                               isCommand |-> m.isCommand, action |-> m.action,
                               confidence |-> m.confidence,
                               original |-> m.original]
                         ELSE taskOrConversation(text, c, i, f)
  /\ UNCHANGED <<handler, text, str1, str2, distance, sim>>
  /\ UNCHANGED <<classifierVars, sessionVars, serverVars>>
  /\ UNCHANGED <<clientVars, monitorVars>>

\* interpret with the file paths taken from the corrected text
InterpretPathsFromCorrected ==
  /\ pc = "idle"
  /\ pc' = "done"
  /\ IF isEmptyInput(text)
     THEN /\ result' = [type |-> "empty"]
          /\ UNCHANGED <<calls, metaCommand, correctedText, intent, filePaths>>
     ELSE \E m \in {detectMetaCommand(text)} :
       /\ metaCommand' = m
       /\ IF m # null
          THEN /\ result' = [type |-> "meta_command",
                             isCommand |-> m.isCommand, action |-> m.action,
                             confidence |-> m.confidence,
                             original |-> m.original]
               /\ calls' = <<"detectMetaCommand">>
               /\ UNCHANGED <<correctedText, intent, filePaths>>
          ELSE \E c \in {correctWhisperErrors(text)} :
               \E i \in {extractIntent(c)} :
               \E f \in {extractFilePaths(c)} :
                 /\ correctedText' = c
                 /\ intent' = i
                 /\ filePaths' = f
                 /\ calls' = <<"detectMetaCommand", "correctWhisperErrors",
                               "extractIntent", "extractFilePaths">>
                 /\ result' = taskOrConversation(text, c, i, f)
  /\ UNCHANGED <<handler, text, str1, str2, distance, sim>>
  /\ UNCHANGED <<classifierVars, sessionVars, serverVars>>
  /\ UNCHANGED <<clientVars, monitorVars>>

\* interpret on a handler that learns: a Task raises the floor of its intent
\* to the confidence just seen
InterpretRaisingFloor ==
  /\ pc = "idle"
  /\ pc' = "done"
  /\ IF isEmptyInput(text)
     THEN /\ result' = [type |-> "empty"]
          /\ UNCHANGED <<handler, calls, metaCommand, correctedText, intent,
                         filePaths>>
     ELSE \E m \in {detectMetaCommand(text)} :
       /\ metaCommand' = m
       /\ IF m # null
          THEN /\ result' = [type |-> "meta_command",
                             isCommand |-> m.isCommand, action |-> m.action,
                             confidence |-> m.confidence,
                             original |-> m.original]
               /\ calls' = <<"detectMetaCommand">>
               /\ UNCHANGED <<handler, correctedText, intent, filePaths>>
          ELSE \E c \in {correctWhisperErrors(text)} :
               \E i \in {extractIntent(c)} :
               \E f \in {extractFilePaths(text)} :
                 /\ correctedText' = c
                 /\ intent' = i
                 /\ filePaths' = f
                 /\ calls' = <<"detectMetaCommand", "correctWhisperErrors",
                               "extractIntent", "extractFilePaths">>
                 /\ result' = taskOrConversation(text, c, i, f)
                 /\ handler' =
                      IF i = null THEN handler
                      ELSE [handler EXCEPT !.intents =
                              [n \in 1..Len(intents) |->
                                 IF intents[n].name = i.intent
                                 THEN [intents[n] EXCEPT !.confidence = i.confidence]
                                 ELSE intents[n]]]
  /\ UNCHANGED <<text, str1, str2, distance, sim>>
  /\ UNCHANGED <<classifierVars, sessionVars, serverVars>>
  /\ UNCHANGED <<clientVars, monitorVars>>

\* one call interpret(text), from entry to return
Interpret ==
  /\ pc = "idle"
  /\ pc' = "done"
  /\ IF isEmptyInput(text)
     THEN /\ result' = [type |-> "empty"]
          /\ UNCHANGED <<calls, metaCommand, correctedText, intent, filePaths>>
     ELSE \E m \in {detectMetaCommand(text)} :
       /\ metaCommand' = m
       /\ IF m # null
          THEN /\ result' = [type |-> "meta_command",
                             isCommand |-> m.isCommand, action |-> m.action,
                             confidence |-> m.confidence,
                             original |-> m.original]
               /\ calls' = <<"detectMetaCommand">>
               /\ UNCHANGED <<correctedText, intent, filePaths>>
          ELSE \E c \in {correctWhisperErrors(text)} :
               \E i \in {extractIntent(c)} :
               \E f \in {extractFilePaths(text)} :
                 /\ correctedText' = c
                 /\ intent' = i
                 /\ filePaths' = f
                 /\ calls' = <<"detectMetaCommand", "correctWhisperErrors",
                               "extractIntent", "extractFilePaths">>
                 /\ result' = taskOrConversation(text, c, i, f)
  /\ UNCHANGED <<handler, text, str1, str2, distance, sim>>
  /\ UNCHANGED <<classifierVars, sessionVars, serverVars>>
  /\ UNCHANGED <<clientVars, monitorVars>>

Next == Interpret

Spec == Init /\ [][Next]_vars

(***************************************************************************)
(* Specification of a handler instance that serves several calls.  The     *)
(* server creates one instance (server.js, line 28) and calls interpret on *)
(* it for every voice input; interpret is synchronous, so calls from       *)
(* different connections run one after the other, in any order.            *)
(***************************************************************************)
MaxCalls == 3    \* calls made on one handler instance

\* a blank text, a meta-command, two Tasks of one intent with different
\* confidences, a Conversation with a file path
SessionInputs == {"", "reset", "run do", "do run it", "see a.js"}

SessionInit ==
  /\ handler = NLPHandler
  /\ text \in SessionInputs
  /\ pc = "idle"
  /\ calls = <<>>
  /\ metaCommand = unset /\ correctedText = unset
  /\ intent = unset /\ filePaths = unset
  /\ result = unset
  /\ str1 = "" /\ str2 = "" /\ distance = -1 /\ sim = NaN
  /\ correctedTwice = unset /\ scores = unset
  /\ history = <<>>
  /\ received = <<>> /\ sent = <<>> /\ llmCalls = <<>> /\ awaiting = {}
  /\ client = clientGlobals
  /\ monitor = newTokenMonitor /\ runs = <<>> /\ messagesAdded = 0

\* the call has returned; the next call enters interpret with fresh locals
NextCall ==
  /\ pc = "done"
  /\ Len(history) + 1 < MaxCalls
  /\ history' = Append(history, [text |-> text, result |-> result])
  /\ text' \in SessionInputs
  /\ pc' = "idle"
  /\ calls' = <<>>
  /\ metaCommand' = unset /\ correctedText' = unset
  /\ intent' = unset /\ filePaths' = unset
  /\ result' = unset
  /\ UNCHANGED <<handler, str1, str2, distance, sim, classifierVars,
                 serverVars>>
  /\ UNCHANGED <<clientVars, monitorVars>>

SessionNext == Interpret \/ NextCall

SessionSpec == SessionInit /\ [][SessionNext]_vars

(***************************************************************************)
(* Specification of the path extractor on texts made of path-like tokens.  *)
(***************************************************************************)
MaxTokens == 3   \* longest generated text, in path tokens

\* bare file names, relative and absolute paths, capitals, punctuation that
\* follows a path, a word that is no path
PathTokens == <<"a.js", "./a.js", "/a.js", "../b/a.js", "B.JS", "a.js,", "in">>

RECURSIVE PathTextsOf(_)
PathTextsOf(n) ==
  IF n = 1 THEN {PathTokens[k] : k \in 1..Len(PathTokens)}
  ELSE {s \o " " \o PathTokens[k] :
          s \in PathTextsOf(n - 1), k \in 1..Len(PathTokens)}

PathTexts == UNION {PathTextsOf(n) : n \in 1..MaxTokens}

\* single relative paths, alone and inside a sentence
PathInputs == {
  "./config.json", "open ./config.json", "edit ../src/app.js now",
  "open /usr/local/bin/app and ./config.json" }

PathInit ==
  /\ handler = NLPHandler
  /\ text \in TestInputs \cup PathInputs \cup PathTexts
  /\ pc = "extract"
  /\ calls = <<>>
  /\ metaCommand = unset /\ correctedText = unset
  /\ intent = unset /\ filePaths = unset
  /\ result = unset
  /\ str1 = "" /\ str2 = "" /\ distance = -1 /\ sim = NaN
  /\ correctedTwice = unset /\ scores = unset
  /\ history = <<>>
  /\ received = <<>> /\ sent = <<>> /\ llmCalls = <<>> /\ awaiting = {}
  /\ client = clientGlobals
  /\ monitor = newTokenMonitor /\ runs = <<>> /\ messagesAdded = 0

\* const filePaths = this.extractFilePaths(text)
ExtractFilePaths ==
  /\ pc = "extract"
  /\ filePaths' = extractFilePaths(text)
  /\ pc' = "extracted"
  /\ UNCHANGED <<handler, text, calls, metaCommand, correctedText, intent,
                 result, str1, str2, distance, sim>>
  /\ UNCHANGED <<classifierVars, sessionVars, serverVars>>
  /\ UNCHANGED <<clientVars, monitorVars>>

PathNext == ExtractFilePaths

PathSpec == PathInit /\ [][PathNext]_vars

(***************************************************************************)
(* Specification of the WebSocket server's message handler (server.js):    *)
(* one connection, on which messages arrive while earlier callLLM          *)
(* invocations are still awaited.  A received message is identified by its *)
(* position in received.                                                   *)
(***************************************************************************)
MaxMessages == 2   \* messages received on the connection

\* a blank text, a meta-command, a Task, a Conversation
ServerTexts == {"", " ", "reset", "run do", "hello"}

\* JSON.parse(message): voice inputs with and without a text, and a message
\* of another type
Messages ==
  {[type |-> "voice_input", text |-> t] : t \in ServerTexts}
    \cup {[type |-> "voice_input"], [type |-> "ping", text |-> "reset"]}

ServerInit ==
  /\ handler = NLPHandler
  /\ text = "" /\ pc = "serving"
  /\ calls = <<>>
  /\ metaCommand = unset /\ correctedText = unset
  /\ intent = unset /\ filePaths = unset
  /\ result = unset
  /\ str1 = "" /\ str2 = "" /\ distance = -1 /\ sim = NaN
  /\ correctedTwice = unset /\ scores = unset
  /\ history = <<>>
  /\ received = <<>> /\ sent = <<>> /\ llmCalls = <<>> /\ awaiting = {}
  /\ client = clientGlobals
  /\ monitor = newTokenMonitor /\ runs = <<>> /\ messagesAdded = 0

\* nlpHandler.interpret(data.text); a message without a text passes
\* undefined, which the first test of interpret takes for blank
interpretation(data) ==
  IF "text" \in DOMAIN data THEN interpret(data.text) ELSE [type |-> "empty"]

nlpDebug(id, r) == [type |-> "nlp_debug", inReplyTo |-> id, interpretation |-> r]

\* the handler without the branch that ignores empty input
dispatchNoEmptyBranch(id, r) ==
  IF r.type = "meta_command"
  THEN /\ sent' = sent \o <<nlpDebug(id, r),
                            [type |-> "command", inReplyTo |-> id,
                             action |-> r.action]>>
       /\ UNCHANGED <<llmCalls, awaiting>>
  ELSE /\ sent' = Append(sent, nlpDebug(id, r))
       /\ llmCalls' = Append(llmCalls, id)
       /\ awaiting' = awaiting \cup {id}

\* the body of "if (data.type === 'voice_input')", up to the await, for the
\* message id with the interpretation r
dispatch(id, r) ==
  IF r.type = "meta_command"
  THEN /\ sent' = sent \o <<nlpDebug(id, r),
                            [type |-> "command", inReplyTo |-> id,
                             action |-> r.action]>>
       /\ UNCHANGED <<llmCalls, awaiting>>
  ELSE IF r.type = "empty"
  THEN /\ sent' = Append(sent, nlpDebug(id, r))
       /\ UNCHANGED <<llmCalls, awaiting>>
  ELSE /\ sent' = Append(sent, nlpDebug(id, r))
       /\ llmCalls' = Append(llmCalls, id)
       /\ awaiting' = awaiting \cup {id}

\* ws.on('message'): a message arrives and the handler runs up to its await
OnMessage ==
  /\ Len(received) < MaxMessages
  /\ \E data \in Messages :
       /\ received' = Append(received, data)
       /\ IF data.type = "voice_input"
          THEN \E r \in {interpretation(data)} : dispatch(Len(received) + 1, r)
          ELSE UNCHANGED <<sent, llmCalls, awaiting>>
  /\ UNCHANGED <<handler, text, pc, calls, metaCommand, correctedText, intent,
                 filePaths, result, str1, str2, distance, sim>>
  /\ UNCHANGED <<classifierVars, sessionVars>>
  /\ UNCHANGED <<clientVars, monitorVars>>

\* callLLM notifies the client of a tool it executes (at most once per call
\* here)
ToolExecution ==
  /\ \E id \in awaiting :
       /\ \A k \in 1..Len(sent) :
            ~(sent[k].type = "tool_execution" /\ sent[k].inReplyTo = id)
       /\ sent' = Append(sent, [type |-> "tool_execution", inReplyTo |-> id])
  /\ UNCHANGED <<handler, text, pc, calls, metaCommand, correctedText, intent,
                 filePaths, result, str1, str2, distance, sim>>
  /\ UNCHANGED <<classifierVars, sessionVars, received, llmCalls, awaiting>>
  /\ UNCHANGED <<clientVars, monitorVars>>

\* the awaited callLLM resolves: the response is sent
LLMResolve ==
  /\ \E id \in awaiting :
       /\ sent' = Append(sent, [type |-> "message", inReplyTo |-> id,
                                 response |-> "response"])
       /\ awaiting' = awaiting \ {id}
  /\ UNCHANGED <<handler, text, pc, calls, metaCommand, correctedText, intent,
                 filePaths, result, str1, str2, distance, sim>>
  /\ UNCHANGED <<classifierVars, sessionVars, received, llmCalls>>
  /\ UNCHANGED <<clientVars, monitorVars>>

\* the awaited callLLM rejects: the catch block sends the error message
LLMReject ==
  /\ \E id \in awaiting :
       /\ sent' = Append(sent, [type |-> "message", inReplyTo |-> id,
                                 response |-> "errorMessage"])
       /\ awaiting' = awaiting \ {id}
  /\ UNCHANGED <<handler, text, pc, calls, metaCommand, correctedText, intent,
                 filePaths, result, str1, str2, distance, sim>>
  /\ UNCHANGED <<classifierVars, sessionVars, received, llmCalls>>
  /\ UNCHANGED <<clientVars, monitorVars>>

ServerNext == OnMessage \/ ToolExecution \/ LLMResolve \/ LLMReject

ServerSpec == ServerInit /\ [][ServerNext]_vars

(***************************************************************************)
(* Specification of the intent classifier: one call extractIntent(text),   *)
(* with the counters of every intent kept for inspection.                  *)
(***************************************************************************)
\* ties between intents, objects without keywords, confidences at and just
\* below a floor, words that are only similar to keywords
ClassifierInputs == {
  "make save list what", "find grep add get", "file document code folder",
  "package library module dependency", "files folder contents directory",
  "remove trash", "delete kill", "remove file", "show display", "run code",
  "reed shaw opem", "kill it", "npm pip", "fine the filez", "x",
  "show display see", "show see it" }

ClassifierWords == <<"run", "do", "code", "show", "reed", "file">>

RECURSIVE ClassifierSentencesOf(_)
ClassifierSentencesOf(n) ==
  IF n = 1 THEN {ClassifierWords[k] : k \in 1..Len(ClassifierWords)}
  ELSE {s \o " " \o ClassifierWords[k] :
          s \in ClassifierSentencesOf(n - 1), k \in 1..Len(ClassifierWords)}

ClassifierSentences == UNION {ClassifierSentencesOf(n) : n \in 1..MaxWords}

ClassifyInit ==
  /\ handler = NLPHandler
  /\ text \in TestInputs \cup ClassifierInputs \cup ClassifierSentences
  /\ pc = "classify"
  /\ calls = <<>>
  /\ metaCommand = unset /\ correctedText = unset
  /\ intent = unset /\ filePaths = unset
  /\ result = unset
  /\ str1 = "" /\ str2 = "" /\ distance = -1 /\ sim = NaN
  /\ correctedTwice = unset /\ scores = unset
  /\ history = <<>>
  /\ received = <<>> /\ sent = <<>> /\ llmCalls = <<>> /\ awaiting = {}
  /\ client = clientGlobals
  /\ monitor = newTokenMonitor /\ runs = <<>> /\ messagesAdded = 0

\* score, keywordMatches and objectMatches of every intent, in table order
allScores(corrected, words) ==
  [n \in 1..Len(intents) |-> intentScore(corrected, words, intents[n])]

\* one call extractIntent(text), from entry to return
ExtractIntent ==
  /\ pc = "classify"
  /\ pc' = "classified"
  /\ \E c \in {correctWhisperErrors(text)} :
       /\ correctedTwice' = c
       /\ scores' = allScores(c, split(c))
  /\ intent' = extractIntent(text)
  /\ UNCHANGED <<handler, text, calls, metaCommand, correctedText, filePaths,
                 result, str1, str2, distance, sim>>
  /\ UNCHANGED <<sessionVars, serverVars>>
  /\ UNCHANGED <<clientVars, monitorVars>>

ClassifyNext == ExtractIntent

ClassifySpec == ClassifyInit /\ [][ClassifyNext]_vars

(***************************************************************************)
(* Specification of the similarity primitive on all short strings.         *)
(***************************************************************************)
Alphabet == {"a", "b", "c"}

RECURSIVE StringsOfLen(_)
StringsOfLen(n) ==
  IF n = 0 THEN {""}
  ELSE {s \o c : s \in StringsOfLen(n - 1), c \in Alphabet}

Strings == UNION {StringsOfLen(n) : n \in 0..MaxLen}

SimInit ==
  /\ handler = NLPHandler
  /\ str1 \in Strings /\ str2 \in Strings
  /\ distance = -1 /\ sim = NaN
  /\ text = "" /\ pc = "sim" /\ calls = <<>>
  /\ metaCommand = unset /\ correctedText = unset
  /\ intent = unset /\ filePaths = unset
  /\ result = unset
  /\ correctedTwice = unset /\ scores = unset
  /\ history = <<>>
  /\ received = <<>> /\ sent = <<>> /\ llmCalls = <<>> /\ awaiting = {}
  /\ client = clientGlobals
  /\ monitor = newTokenMonitor /\ runs = <<>> /\ messagesAdded = 0

Distance ==
  /\ pc = "sim"
  /\ distance' = levenshteinDistance(str1, str2)
  /\ sim' = similarity(str1, str2)
  /\ pc' = "simdone"
  /\ UNCHANGED <<handler, text, calls, metaCommand, correctedText, intent, filePaths,
                 result, str1, str2>>
  /\ UNCHANGED <<classifierVars, sessionVars, serverVars>>
  /\ UNCHANGED <<clientVars, monitorVars>>

SimNext == Distance

SimSpec == SimInit /\ [][SimNext]_vars

(***************************************************************************)
(* Specification of the corrector as interpret uses it: interpret corrects *)
(* the text (line 279) and hands the corrected text to extractIntent,      *)
(* which corrects it again (line 169).                                     *)
(***************************************************************************)
MaxPhrase == 4   \* longest generated phrase, in corrector words

\* the words of the phrase rules and of the prefix rules
CorrectorWords == <<"d", "the", "lead", "In", "stall", "cd", "exit", "cute">>

RECURSIVE PhrasesOf(_)
PhrasesOf(n) ==
  IF n = 1 THEN {CorrectorWords[k] : k \in 1..Len(CorrectorWords)}
  ELSE {s \o " " \o CorrectorWords[k] :
          s \in PhrasesOf(n - 1), k \in 1..Len(CorrectorWords)}

Phrases == UNION {PhrasesOf(n) : n \in 1..MaxPhrase}

\* every rule, rules at word boundaries made by punctuation, separators
\* other than one space
CorrectorInputs == {
  "exit cute exit cute", "EXIT CUTE", "term null", "file path file paths",
  "x-d lead", "the\tlead", "the  lead", "exit cuted lead", "cd  git  ",
  "abcd git", "in stall.in stall", "thethe lead", "d the lead",
  "file path/file path", "GIT CD X", "",
  " show the file ", " run do", "Run It ", "main stall",
  "main stall in stall", "the leader", "one" }

CorrectInit ==
  /\ handler = NLPHandler
  /\ text \in TestInputs \cup CorrectorInputs \cup Phrases
  /\ pc = "correct"
  /\ calls = <<>>
  /\ metaCommand = unset /\ correctedText = unset
  /\ intent = unset /\ filePaths = unset
  /\ result = unset
  /\ str1 = "" /\ str2 = "" /\ distance = -1 /\ sim = NaN
  /\ correctedTwice = unset /\ scores = unset
  /\ history = <<>>
  /\ received = <<>> /\ sent = <<>> /\ llmCalls = <<>> /\ awaiting = {}
  /\ client = clientGlobals
  /\ monitor = newTokenMonitor /\ runs = <<>> /\ messagesAdded = 0

\* const correctedText = this.correctWhisperErrors(text)
Correct ==
  /\ pc = "correct"
  /\ correctedText' = correctWhisperErrors(text)
  /\ pc' = "corrected"
  /\ UNCHANGED <<handler, text, calls, metaCommand, intent, filePaths, result,
                 str1, str2, distance, sim, correctedTwice, scores>>
  /\ UNCHANGED <<sessionVars, serverVars>>
  /\ UNCHANGED <<clientVars, monitorVars>>

\* extractIntent(correctedText): const corrected =
\* this.correctWhisperErrors(text)
CorrectAgain ==
  /\ pc = "corrected"
  /\ correctedTwice' = correctWhisperErrors(correctedText)
  /\ pc' = "correctedAgain"
  /\ UNCHANGED <<handler, text, calls, metaCommand, correctedText, intent,
                 filePaths, result, str1, str2, distance, sim, scores>>
  /\ UNCHANGED <<sessionVars, serverVars>>
  /\ UNCHANGED <<clientVars, monitorVars>>

CorrectNext == Correct \/ CorrectAgain

CorrectSpec == CorrectInit /\ [][CorrectNext]_vars

(***************************************************************************)
(* Specification of the voice client (the page script): the two mode       *)
(* buttons, the events of the command recognition, and the 'command'       *)
(* messages of the server.                                                 *)
(***************************************************************************)
MaxToggles == 3    \* clicks on the two mode buttons
MaxCommands == 1   \* 'command' messages the client receives

\* stopCommandListening(): the flags it clears; the timer it sets resumes
\* the wake-word recognition and writes no flag
stopCommandListening(c) ==
  [c EXCEPT !.isListening = FALSE, !.isWaitingForCommand = FALSE]

\* toggleConversationalMode without "if (wakeWordEnabled) toggleWakeWord()"
toggleConversationalModeKeepingWakeWord(c) ==
  LET flipped == [c EXCEPT !.conversationalMode = ~c.conversationalMode]
  IN IF flipped.conversationalMode THEN flipped
     ELSE stopCommandListening(flipped)

RECURSIVE toggleConversationalMode(_)
RECURSIVE toggleWakeWord(_)

\* toggleConversationalMode(): the flag is flipped first; switching on
\* calls toggleWakeWord() when wake-word mode is on, switching off stops
\* listening
toggleConversationalMode(c) ==
  LET flipped == [c EXCEPT !.conversationalMode = ~c.conversationalMode]
  IN IF flipped.conversationalMode
     THEN IF flipped.wakeWordEnabled THEN toggleWakeWord(flipped)
          ELSE flipped
     ELSE stopCommandListening(flipped)

\* toggleWakeWord(): the flag is flipped first; switching on calls
\* toggleConversationalMode() when conversational mode is on
toggleWakeWord(c) ==
  LET flipped == [c EXCEPT !.wakeWordEnabled = ~c.wakeWordEnabled]
  IN IF flipped.wakeWordEnabled /\ flipped.conversationalMode
     THEN toggleConversationalMode(flipped)
     ELSE flipped

\* handleCommand(action, original): the interface behaviour the switch
\* runs, "none" when no case matches
handleCommand(action, original) ==
  CASE action = "reset" -> "clearChat"
    [] action = "save" -> "saveChat"
    [] action = "compact" -> "compactView"
    [] action = "scroll" ->
         IF includes(original, "top") THEN "scrollTop = 0"
         ELSE IF includes(original, "bottom") THEN "scrollTop = scrollHeight"
         ELSE "none"
    [] action = "copy" -> "copyLastMessage"
    [] OTHER -> "none"

\* the 'command' messages the server sends: for every phrase of every
\* meta-command, the message for the utterance that is that phrase
CommandMessages ==
  UNION {{[type |-> "command", action |-> metaCommandsTable[c].action,
           original |-> metaCommandsTable[c].patterns[p]] :
            p \in 1..Len(metaCommandsTable[c].patterns)} :
         c \in 1..Len(metaCommandsTable)}

ClientInit ==
  /\ handler = NLPHandler
  /\ text = "" /\ pc = "client"
  /\ calls = <<>>
  /\ metaCommand = unset /\ correctedText = unset
  /\ intent = unset /\ filePaths = unset
  /\ result = unset
  /\ str1 = "" /\ str2 = "" /\ distance = -1 /\ sim = NaN
  /\ correctedTwice = unset /\ scores = unset
  /\ history = <<>>
  /\ received = <<>> /\ sent = <<>> /\ llmCalls = <<>> /\ awaiting = {}
  /\ client = clientGlobals
  /\ monitor = newTokenMonitor /\ runs = <<>> /\ messagesAdded = 0

\* the two mode flags, as the log of clicks keeps them
modes(c) ==
  [wakeWordEnabled |-> c.wakeWordEnabled,
   conversationalMode |-> c.conversationalMode]

logged(c) == [c EXCEPT !.toggled = Append(@, modes(c))]

\* a click on the wake-word button: toggleWakeWord() from entry to return
ToggleWakeWord ==
  /\ pc = "client"
  /\ Len(client.toggled) < MaxToggles
  /\ client' = logged(toggleWakeWord(client))
  /\ UNCHANGED <<handler, text, pc, calls, metaCommand, correctedText, intent,
                 filePaths, result, str1, str2, distance, sim>>
  /\ UNCHANGED <<classifierVars, sessionVars, serverVars, monitorVars>>

\* a click on the conversational button: toggleConversationalMode() from
\* entry to return
ToggleConversationalMode ==
  /\ pc = "client"
  /\ Len(client.toggled) < MaxToggles
  /\ client' = logged(toggleConversationalMode(client))
  /\ UNCHANGED <<handler, text, pc, calls, metaCommand, correctedText, intent,
                 filePaths, result, str1, str2, distance, sim>>
  /\ UNCHANGED <<classifierVars, sessionVars, serverVars, monitorVars>>

\* recognition.onstart, after startCommandListening() found
\* isWaitingForCommand false and started the recognition
RecognitionOnStart ==
  /\ pc = "client"
  /\ ~client.isWaitingForCommand
  /\ client' = [client EXCEPT !.isListening = TRUE,
                              !.isWaitingForCommand = TRUE]
  /\ UNCHANGED <<handler, text, pc, calls, metaCommand, correctedText, intent,
                 filePaths, result, str1, str2, distance, sim>>
  /\ UNCHANGED <<classifierVars, sessionVars, serverVars, monitorVars>>

\* recognition.onend: stopCommandListening()
RecognitionOnEnd ==
  /\ pc = "client"
  /\ client.isListening
  /\ client' = stopCommandListening(client)
  /\ UNCHANGED <<handler, text, pc, calls, metaCommand, correctedText, intent,
                 filePaths, result, str1, str2, distance, sim>>
  /\ UNCHANGED <<classifierVars, sessionVars, serverVars, monitorVars>>

\* ws.onmessage for a message of type 'command':
\* handleCommand(data.action, data.original)
OnCommand ==
  /\ pc = "client"
  /\ Len(client.performed) < MaxCommands
  /\ \E data \in CommandMessages :
       client' = [client EXCEPT !.performed =
                    Append(@, [action |-> data.action,
                               original |-> data.original,
                               behaviour |-> handleCommand(data.action,
                                                           data.original)])]
  /\ UNCHANGED <<handler, text, pc, calls, metaCommand, correctedText, intent,
                 filePaths, result, str1, str2, distance, sim>>
  /\ UNCHANGED <<classifierVars, sessionVars, serverVars, monitorVars>>

ClientNext ==
  \/ ToggleWakeWord \/ ToggleConversationalMode
  \/ RecognitionOnStart \/ RecognitionOnEnd
  \/ OnCommand

ClientSpec == ClientInit /\ [][ClientNext]_vars

(***************************************************************************)
(* Specification of the token monitor (token-monitor.js): addMessage calls *)
(* arrive while a processWithLlama invocation is suspended at one of its   *)
(* awaits.                                                                 *)
(***************************************************************************)
MaxAdds == 3          \* addMessage calls

\* options.tokenThreshold, scaled down with the messages
tokenThreshold == 2

\* userTokens + assistantTokens of one message
MessageTokens == {1, 2}

MonitorInit ==
  /\ handler = NLPHandler
  /\ text = "" /\ pc = "monitoring"
  /\ calls = <<>>
  /\ metaCommand = unset /\ correctedText = unset
  /\ intent = unset /\ filePaths = unset
  /\ result = unset
  /\ str1 = "" /\ str2 = "" /\ distance = -1 /\ sim = NaN
  /\ correctedTwice = unset /\ scores = unset
  /\ history = <<>>
  /\ received = <<>> /\ sent = <<>> /\ llmCalls = <<>> /\ awaiting = {}
  /\ client = clientGlobals
  /\ monitor = newTokenMonitor /\ runs = <<>> /\ messagesAdded = 0

\* the buffer and the counter after "this.currentTokenCount += totalNew;
\* this.conversationBuffer.push(...)" for the message id
pushed(m, id, tokens) ==
  [m EXCEPT !.currentTokenCount = @ + tokens,
            !.conversationBuffer = Append(@, [id |-> id, tokens |-> tokens])]

\* "this.currentTokenCount >= this.tokenThreshold && !this.isProcessing"
thresholdReached(m) ==
  m.currentTokenCount >= tokenThreshold /\ ~m.isProcessing

\* the ids of the buffered messages: what the conversation text is built of
bufferedIds(m) ==
  [k \in 1..Len(m.conversationBuffer) |-> m.conversationBuffer[k].id]

\* addMessage(userMessage, assistantResponse), up to its await: the message
\* is counted and pushed; at the threshold processWithLlama is entered and
\* runs to its first await, the read of the memory file
AddMessage ==
  /\ pc = "monitoring"
  /\ messagesAdded < MaxAdds
  /\ messagesAdded' = messagesAdded + 1
  /\ \E tokens \in MessageTokens :
     \E m \in {pushed(monitor, messagesAdded + 1, tokens)} :
       IF thresholdReached(m) /\ ~m.isProcessing
       THEN /\ monitor' = [m EXCEPT !.isProcessing = TRUE]
            /\ runs' = Append(runs, [at |-> "readMemory",
                                     conversationText |-> unset,
                                     summarized |-> FALSE])
       ELSE /\ monitor' = m
            /\ UNCHANGED runs
  /\ UNCHANGED <<handler, text, pc, calls, metaCommand, correctedText, intent,
                 filePaths, result, str1, str2, distance, sim>>
  /\ UNCHANGED <<classifierVars, sessionVars, serverVars, clientVars>>

\* the read of the memory file settles (a failure is caught on the spot):
\* the conversation text is built from the buffer as it is now, and
\* callOllama is awaited
ReadMemorySettles ==
  /\ pc = "monitoring"
  /\ \E k \in 1..Len(runs) :
       /\ runs[k].at = "readMemory"
       /\ runs' = [runs EXCEPT ![k].at = "callOllama",
                               ![k].conversationText = bufferedIds(monitor)]
  /\ UNCHANGED <<monitor, messagesAdded>>
  /\ UNCHANGED <<handler, text, pc, calls, metaCommand, correctedText, intent,
                 filePaths, result, str1, str2, distance, sim>>
  /\ UNCHANGED <<classifierVars, sessionVars, serverVars, clientVars>>

\* callOllama resolves: the summary is parsed and saveState is awaited
OllamaResolves ==
  /\ pc = "monitoring"
  /\ \E k \in 1..Len(runs) :
       /\ runs[k].at = "callOllama"
       /\ runs' = [runs EXCEPT ![k].at = "saveState"]
  /\ UNCHANGED <<monitor, messagesAdded>>
  /\ UNCHANGED <<handler, text, pc, calls, metaCommand, correctedText, intent,
                 filePaths, result, str1, str2, distance, sim>>
  /\ UNCHANGED <<classifierVars, sessionVars, serverVars, clientVars>>

\* saveState resolves: "this.conversationBuffer = []; this.currentTokenCount
\* = 0", then the write of the memory file is awaited
SaveStateResolves ==
  /\ pc = "monitoring"
  /\ \E k \in 1..Len(runs) :
       /\ runs[k].at = "saveState"
       /\ runs' = [runs EXCEPT ![k].at = "writeMemory",
                               ![k].summarized = TRUE]
       /\ monitor' = [monitor EXCEPT !.conversationBuffer = <<>>,
                                     !.currentTokenCount = 0]
  /\ UNCHANGED messagesAdded
  /\ UNCHANGED <<handler, text, pc, calls, metaCommand, correctedText, intent,
                 filePaths, result, str1, str2, distance, sim>>
  /\ UNCHANGED <<classifierVars, sessionVars, serverVars, clientVars>>

\* callOllama or saveState rejects: catch logs the error, finally resets
\* isProcessing
AwaitRejects ==
  /\ pc = "monitoring"
  /\ \E k \in 1..Len(runs) :
       /\ runs[k].at \in {"callOllama", "saveState"}
       /\ runs' = [runs EXCEPT ![k].at = "returned"]
       /\ monitor' = [monitor EXCEPT !.isProcessing = FALSE]
  /\ UNCHANGED messagesAdded
  /\ UNCHANGED <<handler, text, pc, calls, metaCommand, correctedText, intent,
                 filePaths, result, str1, str2, distance, sim>>
  /\ UNCHANGED <<classifierVars, sessionVars, serverVars, clientVars>>

\* the write of the memory file settles either way: finally resets
\* isProcessing
WriteMemorySettles ==
  /\ pc = "monitoring"
  /\ \E k \in 1..Len(runs) :
       /\ runs[k].at = "writeMemory"
       /\ runs' = [runs EXCEPT ![k].at = "returned"]
       /\ monitor' = [monitor EXCEPT !.isProcessing = FALSE]
  /\ UNCHANGED messagesAdded
  /\ UNCHANGED <<handler, text, pc, calls, metaCommand, correctedText, intent,
                 filePaths, result, str1, str2, distance, sim>>
  /\ UNCHANGED <<classifierVars, sessionVars, serverVars, clientVars>>

MonitorNext ==
  \/ AddMessage
  \/ ReadMemorySettles \/ OllamaResolves \/ SaveStateResolves
  \/ AwaitRejects \/ WriteMemorySettles

MonitorSpec == MonitorInit /\ [][MonitorNext]_vars

(***************************************************************************)
(* Properties.                                                             *)
(***************************************************************************)
done == pc = "done"

allWhitespace(s) == \A k \in 1..Len(s) : isSpace(charAt(s, k))

isHit(m) == m # unset /\ m # null

\* C1: a zero-length or whitespace-only text yields the Empty result, which
\* has no payload, and no detection, correction, classification or path
\* extraction has run when it is returned.
C1_BlankIsEmpty ==
  done /\ allWhitespace(text) =>
    /\ result = [type |-> "empty"]
    /\ calls = <<>>
    /\ metaCommand = unset /\ correctedText = unset
    /\ intent = unset /\ filePaths = unset

C1_Witness ==
  done /\ Len(text) > 1 /\ allWhitespace(text) /\ result.type = "empty"

C3_ConfidenceInUnitInterval ==
  done /\ result.type \in {"meta_command", "task"} =>
    Geq(result.confidence, Zero) /\ Geq(One, result.confidence)

\* a phrase qualifies for the corrected text by containment or similarity
qualifies(corrected, pattern) ==
  \/ includes(corrected, pattern)
  \/ Geq(similarity(corrected, pattern), Num(85, 100))

\* the confidence a qualifying phrase gives
phraseConfidence(corrected, pattern) ==
  IF includes(corrected, pattern) THEN One
  ELSE similarity(corrected, pattern)

commandOf(action) ==
  CHOOSE c \in 1..Len(metaCommands) : metaCommands[c].action = action

\* C4: a hit names the first command, in declared order, that has a
\* qualifying phrase, with the confidence of the first qualifying phrase of
\* that command; no phrase of an earlier command qualifies.
C4_FirstQualifyingMatch ==
  done /\ isHit(metaCommand) =>
    LET corrected == correctWhisperErrors(text)
        c == commandOf(metaCommand.action)
        patterns == metaCommands[c].patterns
    IN /\ \A c0 \in 1..(c - 1) :
            \A p0 \in 1..Len(metaCommands[c0].patterns) :
              ~qualifies(corrected, metaCommands[c0].patterns[p0])
       /\ \E p \in 1..Len(patterns) :
            /\ qualifies(corrected, patterns[p])
            /\ \A p0 \in 1..(p - 1) : ~qualifies(corrected, patterns[p0])
            /\ metaCommand.confidence = phraseConfidence(corrected, patterns[p])

\* a phrase of a later command qualifies too, with a higher confidence
C4_Witness ==
  /\ done /\ isHit(metaCommand)
  /\ \E c \in (commandOf(metaCommand.action) + 1)..Len(metaCommands) :
       \E p \in 1..Len(metaCommands[c].patterns) :
         /\ qualifies(correctWhisperErrors(text), metaCommands[c].patterns[p])
         /\ Gt(phraseConfidence(correctWhisperErrors(text),
                                metaCommands[c].patterns[p]),
               metaCommand.confidence)

Variants == {"empty", "meta_command", "task", "conversation"}

\* the fields each variant carries
VariantFields(type) ==
  CASE type = "empty" -> {"type"}
    [] type = "meta_command" ->
         {"type", "isCommand", "action", "confidence", "original"}
    [] type = "task" ->
         {"type", "original", "corrected", "intent", "confidence",
          "filePaths", "enhancedPrompt"}
    [] type = "conversation" ->
         {"type", "original", "corrected", "filePaths", "enhancedPrompt"}
    [] OTHER -> {}

isAscii(c) ==
  \/ isWordChar(c) \/ isSpace(c) \/ c \in {".", "/", "-", ",", "'", "?", "!"}

\* C6: what a call returns, on any string, is exactly one of the four
\* variants: its type is one of the four and it carries that variant's
\* fields and no others.
C6_TotalOnStrings ==
  done => /\ result.type \in Variants
          /\ DOMAIN result = VariantFields(result.type)

\* a text with a character outside ASCII has been interpreted
C6_Witness ==
  /\ done
  /\ \E k \in 1..Len(text) : ~isAscii(charAt(text, k))
  /\ result.type \in Variants

\* C7: without a meta-command hit the result is Task exactly when the
\* classifier, run on the corrected text, returns an intent with a
\* confidence of at least 0.5; otherwise it is Conversation.
C7_TaskIffIntent ==
  done /\ metaCommand = null =>
    /\ intent = extractIntent(correctWhisperErrors(text))
    /\ result.type = "task" <=>
         (intent # null /\ Geq(intent.confidence, Num(5, 10)))
    /\ result.type \in {"task", "conversation"}

C7_Witness ==
  /\ done /\ metaCommand = null
  /\ result.type = "task"
  /\ intent # null /\ Geq(intent.confidence, Num(5, 10))

\* C8: interpret("red the file server.js") is a Task with intent file_read
\* whose file paths contain "server.js".
C8_RedTheFile ==
  done /\ text = "red the file server.js" =>
    /\ result.type = "task"
    /\ result.intent = "file_read"
    /\ \E k \in 1..Len(result.filePaths) : result.filePaths[k] = "server.js"

simDone == pc = "simdone"

C10_Symmetric ==
  simDone =>
    /\ distance = levenshteinDistance(str2, str1)
    /\ sim = similarity(str2, str1)

\* two different strings of different lengths at a positive distance
C10_Witness ==
  /\ simDone
  /\ Len(str1) < Len(str2) /\ Len(str1) > 0
  /\ distance > Len(str2) - Len(str1)

\* C11: correcting a corrected text changes nothing, so the second
\* correction, which extractIntent applies to the text interpret has
\* corrected already, gives the classifier the same text.
C11_CorrectIdempotent ==
  pc = "correctedAgain" => correctedTwice = correctedText

\* a text that a phrase rule has rewritten and that went through both
\* corrections
C11_Witness ==
  /\ pc = "correctedAgain"
  /\ correctedText # toLowerCase(text)
  /\ includes(correctedText, "delete")
  /\ correctedTwice = correctedText

\* C12: over any sequence of calls on one handler the tables the
\* constructor built stay as they were built, and a call returns what every
\* earlier call on the same text returned, whatever was called in between.
C12_Stateless ==
  /\ handler = NLPHandler
  /\ done => \A k \in 1..Len(history) :
               history[k].text = text => history[k].result = result

\* a Task returned again after a call on another text, of the same intent
\* and with a higher confidence, came in between
C12_Witness ==
  /\ done /\ Len(history) = 2
  /\ history[1].text = text /\ history[2].text # text
  /\ result.type = "task" /\ history[2].result.type = "task"
  /\ history[2].result.intent = result.intent
  /\ Gt(history[2].result.confidence, result.confidence)
  /\ history[1].result = result

isTaskOrConversation == done /\ result.type \in {"task", "conversation"}

\* s starts with p
startsWith(s, p) == matchAt(s, p, 1)

\* C13: the file paths of a Task or Conversation are what the path
\* extractor finds in the original text: each is a substring of the original
\* text as typed; the corrected text is the lowercased, corrected text.
C13_PathsFromOriginal ==
  isTaskOrConversation =>
    /\ result.filePaths = extractFilePaths(text)
    /\ \A k \in 1..Len(result.filePaths) : includes(text, result.filePaths[k])
    /\ result.original = text
    /\ result.corrected = correctWhisperErrors(text)

\* the corrected text holds other paths than the original text: a path with
\* capital letters, or one that a phrase rule has rewritten
C13_Witness ==
  /\ isTaskOrConversation
  /\ Len(result.filePaths) > 0
  /\ extractFilePaths(result.corrected) # result.filePaths
  /\ \E k \in 1..Len(result.filePaths) :
       ~includes(result.corrected, result.filePaths[k])

\* the annotation that names the intent, and the one that lists the paths
intentAnnotation(intentName) ==
  "\n\n[Context: User likely wants to " \o getIntentContext(intentName) \o "]"

pathsAnnotation(paths) ==
  "\n[Detected file paths: " \o join(paths, 1) \o "]"

\* C15: the enhanced prompt starts with the corrected text; in a Task the
\* annotation of the intent follows, and then the list of the file paths
\* exactly when there are file paths; in a Conversation nothing follows the
\* corrected text, with or without file paths.
C15_EnhancedPrompt ==
  isTaskOrConversation =>
    /\ startsWith(result.enhancedPrompt, result.corrected)
    /\ result.type = "conversation" => result.enhancedPrompt = result.corrected
    /\ result.type = "task" =>
         /\ getIntentContext(result.intent) # ""
         /\ result.enhancedPrompt =
              result.corrected \o intentAnnotation(result.intent)
                \o (IF Len(result.filePaths) > 0
                    THEN pathsAnnotation(result.filePaths) ELSE "")
         /\ includes(result.enhancedPrompt, "[Detected file paths: ")
              <=> Len(result.filePaths) > 0

\* a Task that carries several file paths
C15_Witness ==
  /\ isTaskOrConversation
  /\ result.type = "task"
  /\ Len(result.filePaths) > 1
  /\ includes(result.enhancedPrompt, ", ")
  /\ result.enhancedPrompt # result.corrected

\* what the three patterns match, in the order the code pushes the matches
allMatches(s) ==
  matchesFrom("absolutePattern", s, 1) \o matchesFrom("relativePattern", s, 1)
    \o matchesFrom("filePattern", s, 1)

\* position of the first occurrence of x in the sequence q
firstIndex(q, x) == SetMin({k \in 1..Len(q) : q[k] = x})

elements(q) == {q[k] : k \in 1..Len(q)}

\* C14: the extractor returns every matched string exactly once, and the
\* strings stand in the order of their first occurrences among the matches.
C14_NoDuplicatePaths ==
  pc = "extracted" =>
    /\ \A j, k \in 1..Len(filePaths) : filePaths[j] = filePaths[k] => j = k
    /\ elements(filePaths) = elements(allMatches(text))
    /\ \A j, k \in 1..Len(filePaths) :
         j < k => firstIndex(allMatches(text), filePaths[j])
                    < firstIndex(allMatches(text), filePaths[k])

\* a string matched twice, with another string matched in between
C14_Witness ==
  /\ pc = "extracted"
  /\ Len(filePaths) > 1
  /\ \E i, j, k \in 1..Len(allMatches(text)) :
       /\ i < j /\ j < k
       /\ allMatches(text)[i] = allMatches(text)[k]
       /\ allMatches(text)[i] # allMatches(text)[j]

\* the messages of the given type sent in reply to the received message id
repliesOf(id, type) ==
  {k \in 1..Len(sent) : sent[k].inReplyTo = id /\ sent[k].type = type}

\* callLLM has been invoked for the received message id
called(id) == \E k \in 1..Len(llmCalls) : llmCalls[k] = id

\* the interpretation of the voice input id, as reported to the client
interpretationOf(id) ==
  sent[CHOOSE k \in repliesOf(id, "nlp_debug") : TRUE].interpretation

\* C16: callLLM is invoked for a received message only if it is a voice
\* input whose interpretation is a Task or a Conversation; a meta-command
\* gets a 'command' reply and no call; an empty interpretation gets no
\* 'command', no 'message' and no call.
C16_ModelCalledForTaskOrConversation ==
  \A id \in 1..Len(received) :
    IF received[id].type # "voice_input"
    THEN ~called(id)
    ELSE /\ Cardinality(repliesOf(id, "nlp_debug")) = 1
         /\ called(id) <=>
              interpretationOf(id).type \in {"task", "conversation"}
         /\ interpretationOf(id).type = "meta_command" =>
              /\ Cardinality(repliesOf(id, "command")) = 1
              /\ repliesOf(id, "message") = {}
              /\ ~called(id)
         /\ interpretationOf(id).type = "empty" =>
              /\ repliesOf(id, "command") = {}
              /\ repliesOf(id, "message") = {}
              /\ ~called(id)
         /\ repliesOf(id, "message") # {} => called(id)

\* an empty and a meta-command voice input were handled while the call for a
\* Task was awaited, and then that call settled
C16_Witness ==
  /\ Len(received) = MaxMessages
  /\ \E id \in 1..Len(received) :
       /\ received[id].type = "voice_input"
       /\ interpretationOf(id).type = "task"
       /\ called(id) /\ repliesOf(id, "message") # {}
  /\ \E id \in 1..Len(received) :
       /\ received[id].type = "voice_input"
       /\ interpretationOf(id).type \in {"meta_command", "empty"}
       /\ ~called(id)

classified == pc = "classified"

\* the (word, item) pairs, by position, whose similarity is at least 0.7
similarPairs(words, items) ==
  {p \in (1..Len(words)) \X (1..Len(items)) :
     Geq(similarity(words[p[1]], items[p[2]]), Num(7, 10))}

\* the sum of the similarities of the pairs in P
RECURSIVE similaritySum(_, _, _)
similaritySum(words, items, P) ==
  IF P = {} THEN Zero
  ELSE LET p == CHOOSE q \in P : TRUE
       IN Add(similarity(words[p[1]], items[p[2]]),
              similaritySum(words, items, P \ {p}))

\* the items that occur in the text as substrings
substrings(s, items) == {k \in 1..Len(items) : includes(s, items[k])}

\* score / (number of keywords + number of objects), for intent n
confidenceOf(n) ==
  Mul(scores[n].score,
      Num(1, Len(intentsTable[n].keywords) + Len(intentsTable[n].objects)))

\* C17: a keyword that is a substring of the corrected text adds 1 to the
\* score and one keyword hit, an object 0.5 and one object hit, once per
\* keyword or object, however many words the text has.
C17_SubstringOncePerKeyword ==
  classified =>
    \A n \in 1..Len(intentsTable) :
      LET words == split(correctedTwice)
          kw == intentsTable[n].keywords
          ob == intentsTable[n].objects
      IN /\ scores[n].keywordMatches =
              Cardinality(similarPairs(words, kw))
                + Cardinality(substrings(correctedTwice, kw))
         /\ scores[n].objectMatches =
              Cardinality(similarPairs(words, ob))
                + Cardinality(substrings(correctedTwice, ob))
         /\ scores[n].score =
              Add(Add(similaritySum(words, kw, similarPairs(words, kw)),
                      Num(Cardinality(substrings(correctedTwice, kw)), 1)),
                  Mul(Half,
                      Add(similaritySum(words, ob, similarPairs(words, ob)),
                          Num(Cardinality(substrings(correctedTwice, ob)), 1))))

\* no keyword and no object of intent n is a substring of the text s
noSubstring(s, n) ==
  /\ substrings(s, intentsTable[n].keywords) = {}
  /\ substrings(s, intentsTable[n].objects) = {}

\* C18: for an intent none of whose keywords and objects is a substring of
\* the text, the confidence is the sum of the similarities of the (word,
\* keyword) pairs at or above 0.7, plus half the sum for the (word, object)
\* pairs at or above 0.7, divided by the number of keywords and objects.
C18_FuzzyOnlyConfidence ==
  classified =>
    \A n \in 1..Len(intentsTable) :
      noSubstring(correctedTwice, n) =>
        LET words == split(correctedTwice)
            kw == intentsTable[n].keywords
            ob == intentsTable[n].objects
        IN /\ confidenceOf(n) =
                Mul(Add(similaritySum(words, kw, similarPairs(words, kw)),
                        Mul(Half, similaritySum(words, ob,
                                                similarPairs(words, ob)))),
                    Num(1, Len(kw) + Len(ob)))
           /\ scores[n].keywordMatches = Cardinality(similarPairs(words, kw))
           /\ scores[n].objectMatches = Cardinality(similarPairs(words, ob))

\* several words that are similar, not equal, to keywords of one intent,
\* and words that are not similar enough to count
C18_Witness ==
  /\ classified
  /\ \E n \in 1..Len(intentsTable) :
       /\ noSubstring(correctedTwice, n)
       /\ scores[n].keywordMatches > 1
       /\ Gt(scores[n].score, One)
       /\ Gt(Num(scores[n].keywordMatches, 1), scores[n].score)
       /\ \E w \in 1..Len(split(correctedTwice)) :
            \E k \in 1..Len(intentsTable[n].keywords) :
              LET s == similarity(split(correctedTwice)[w],
                                  intentsTable[n].keywords[k])
              IN Geq(s, Half) /\ ~Geq(s, Num(7, 10))

\* the floors of the intents, as declared
floorOf(intentName) ==
  IF intentName \in {"file_delete", "install"} THEN Num(7, 10) ELSE Num(6, 10)

intentNamed(intentName) ==
  CHOOSE n \in 1..Len(intentsTable) : intentsTable[n].name = intentName

\* C19: a returned intent has at least one keyword hit and a confidence of
\* at least its own floor, however many of its objects match.
C19_KeywordHitAndFloor ==
  classified /\ intent # null =>
    LET n == intentNamed(intent.intent)
    IN /\ scores[n].keywordMatches > 0
       /\ intent.keywordMatches = scores[n].keywordMatches
       /\ intent.confidence = confidenceOf(n)
       /\ Geq(intent.confidence, floorOf(intent.intent))

\* an intent is returned although another intent has a higher confidence,
\* above its floor, from object matches alone
C19_Witness ==
  /\ classified /\ intent # null
  /\ \E m \in 1..Len(intentsTable) :
       /\ scores[m].keywordMatches = 0
       /\ scores[m].objectMatches > 0
       /\ Geq(confidenceOf(m), floorOf(intentsTable[m].name))
       /\ Gt(confidenceOf(m), intent.confidence)

\* intent n qualifies: a keyword hit and a confidence of at least its floor
qualifiesIntent(n) ==
  /\ scores[n].keywordMatches > 0
  /\ Geq(confidenceOf(n), floorOf(intentsTable[n].name))

\* C20: the classifier returns none exactly when no intent qualifies;
\* otherwise it returns a qualifying intent of the highest confidence, and
\* the earliest declared one of those.
C20_HighestEarliestQualifying ==
  classified =>
    IF intent = null
    THEN \A n \in 1..Len(intentsTable) : ~qualifiesIntent(n)
    ELSE LET n == intentNamed(intent.intent)
         IN /\ qualifiesIntent(n)
            /\ intent.confidence = confidenceOf(n)
            /\ \A m \in 1..Len(intentsTable) :
                 qualifiesIntent(m) =>
                   /\ Geq(confidenceOf(n), confidenceOf(m))
                   /\ confidenceOf(m) = confidenceOf(n) => n <= m

\* two qualifying intents of equal confidence
C20_Witness ==
  /\ classified /\ intent # null
  /\ \E m \in 1..Len(intentsTable) :
       /\ m > intentNamed(intent.intent)
       /\ qualifiesIntent(m)
       /\ confidenceOf(m) = intent.confidence

\* C21: when several intents qualify, the classifier does not stop at the
\* first one: every qualifying intent declared before the returned one has
\* a strictly lower confidence, and no qualifying intent declared after it
\* has a higher one.
C21_BestNotFirst ==
  classified /\ intent # null =>
    \A m \in 1..Len(intentsTable) :
      qualifiesIntent(m) =>
        IF m < intentNamed(intent.intent)
        THEN Gt(intent.confidence, confidenceOf(m))
        ELSE Geq(intent.confidence, confidenceOf(m))

\* an intent declared before the returned one qualifies as well
C21_Witness ==
  /\ classified /\ intent # null
  /\ \E m \in 1..Len(intentsTable) :
       /\ m < intentNamed(intent.intent)
       /\ qualifiesIntent(m)

\* C21 as stated: the returned intent is the first qualifying intent in
\* declaration order.
C21_FirstQualifying ==
  classified /\ intent # null =>
    \A m \in 1..Len(intentsTable) :
      m < intentNamed(intent.intent) => ~qualifiesIntent(m)

\* s holds no uppercase letter
noUpperCase(s) == \A k \in 1..Len(s) : charAt(s, k) \notin UpperLetters

\* C22: the corrected text is lowercased and trimmed: no uppercase letter,
\* no leading or trailing whitespace, the same as the correction of the
\* trimmed text, and no empty word when the classifier splits it.
C22_LowercasedAndTrimmed ==
  pc = "corrected" /\ trim(text) # "" =>
    /\ noUpperCase(correctedText)
    /\ correctedText = trim(correctedText)
    /\ correctedText = correctWhisperErrors(trim(text))
    /\ \A k \in 1..Len(split(correctedText)) : split(correctedText)[k] # ""

\* pattern occurs in s at position i as whole words
wholeWordAt(s, pattern, i) ==
  /\ matchAt(s, pattern, i)
  /\ wordBoundary(s, i)
  /\ wordBoundary(s, i + Len(pattern))

\* the six rules that rewrite a phrase; the last two replace "cd " and
\* "git " by themselves
phraseRules == 1..6

\* the positions of s where the pattern of rule r stands as whole words
wholeWordOccurrences(s, r) ==
  {i \in 1..Len(s) : wholeWordAt(s, correctionRules[r].pattern, i)}

\* the characters saved by replacing the whole-word occurrences of the
\* rules r..6 in s
RECURSIVE savedFrom(_, _)
savedFrom(s, r) ==
  IF r \notin phraseRules THEN 0
  ELSE Cardinality(wholeWordOccurrences(s, r))
         * (Len(correctionRules[r].pattern)
              - Len(correctionRules[r].replacement))
       + savedFrom(s, r + 1)

\* C23: the corrector replaces the occurrences of a rule's pattern that
\* stand as whole words in the lowercased text and leaves an occurrence
\* that begins or ends inside a longer word as it is; afterwards no pattern
\* stands as whole words, and a text without such an occurrence is only
\* lowercased.
C23_WholeWordReplacement ==
  pc = "corrected" =>
    /\ \A r \in phraseRules : wholeWordOccurrences(correctedText, r) = {}
    /\ (\A r \in phraseRules : wholeWordOccurrences(toLowerCase(text), r) = {})
         => correctedText = toLowerCase(text)
    /\ Len(correctedText) = Len(text) - savedFrom(toLowerCase(text), 1)

\* one occurrence inside a longer word is kept, a whole-word occurrence of
\* the same pattern is replaced
C23_Witness ==
  /\ pc = "corrected"
  /\ includes(correctedText, "in stall")
  /\ includes(correctedText, "install")
  /\ Len(correctedText) = Len(text) - 1

\* every literal occurrence of pattern in s from position i on replaced
RECURSIVE replaceLiteralFrom(_, _, _, _)
replaceLiteralFrom(s, pattern, replacement, i) ==
  IF i > Len(s) THEN ""
  ELSE IF matchAt(s, pattern, i)
       THEN replacement \o replaceLiteralFrom(s, pattern, replacement,
                                              i + Len(pattern))
       ELSE charAt(s, i) \o replaceLiteralFrom(s, pattern, replacement, i + 1)

RECURSIVE applyLiteralRules(_, _)
applyLiteralRules(s, r) ==
  IF r > Len(correctionRules) THEN s
  ELSE applyLiteralRules(
         replaceLiteralFrom(s, correctionRules[r].pattern,
                            correctionRules[r].replacement, 1), r + 1)

\* C23 as stated: every occurrence of a pattern as a literal substring of
\* the lowercased text is replaced, in one pass through the rules.
C23_LiteralSubstringReplacement ==
  pc = "corrected" => correctedText = applyLiteralRules(toLowerCase(text), 1)

\* the strings one single-character deletion, substitution or insertion
\* away from s, within the length bound
oneEditFrom(s) ==
  ({SubSeq(s, 1, i - 1) \o SubSeq(s, i + 1, Len(s)) : i \in 1..Len(s)}
   \cup {SubSeq(s, 1, i - 1) \o c \o SubSeq(s, i + 1, Len(s)) :
           i \in 1..Len(s), c \in Alphabet}
   \cup (IF Len(s) < MaxLen
         THEN {SubSeq(s, 1, i) \o c \o SubSeq(s, i + 1, Len(s)) :
                 i \in 0..Len(s), c \in Alphabet}
         ELSE {})) \ {s}

\* the distances from a to the strings in T
distancesTo(a, T) == {levenshteinDistance(a, t) : t \in T}

\* d is the length of a shortest chain of single-character edits from a to
\* b, given the distances D from a to the strings one edit away from b:
\* some chain of d edits ends in b, and no shorter chain does
isEditDistance(d, a, b, D) ==
  /\ d = 0 <=> a = b
  /\ d > 0 => d - 1 \in D
  /\ \A x \in D : x >= d - 1

\* C24: the distance is the minimum number of single-character insertions,
\* deletions and substitutions that turn one string into the other; it lies
\* between 0 and the length of the longer string, the similarity lies in
\* [0, 1] unless both strings are empty, and the similarity of the empty
\* string with a non-empty string is 0.
C24_MinimumEditCount ==
  simDone =>
    /\ isEditDistance(distance, str1, str2,
                      distancesTo(str1, oneEditFrom(str2)))
    /\ 0 <= distance /\ distance <= Max2(Len(str1), Len(str2))
    /\ str1 # "" \/ str2 # "" => Geq(sim, Zero) /\ Geq(One, sim)
    /\ (str1 = "") # (str2 = "") => NumEq(sim, Zero)

\* two strings of equal length that need a substitution and an insertion
\* with a deletion, and the empty string against a non-empty one
C24_Witness ==
  /\ simDone
  /\ str1 = "abc" /\ str2 = "bca"
  /\ distance = 2
  /\ levenshteinDistance("", str2) = 3
  /\ NumEq(similarity("", str2), Zero)

\* the test table: an imperfect transcription and the expected behaviour
testCases == <<
  [input |-> "red the file server.js", expected |-> "file_read"],
  [input |-> "right a file called test.txt", expected |-> "file_write"],
  [input |-> "show me the contents of package.jason", expected |-> "file_read"],
  [input |-> "create a knew file", expected |-> "file_write"],
  [input |-> "the lead that file", expected |-> "file_delete"],
  [input |-> "exit cute npm install", expected |-> "execute_command"],
  [input |-> "one the server", expected |-> "execute_command"],
  [input |-> "in stall express", expected |-> "install"],
  [input |-> "missed the files in this folder", expected |-> "file_list"],
  [input |-> "so me whats in the directory", expected |-> "file_list"],
  [input |-> "list the contents of the older", expected |-> "file_list"],
  [input |-> "fine the word todo in my code", expected |-> "search"],
  [input |-> "surge for package.json", expected |-> "search"],
  [input |-> "look for the function called mean", expected |-> "search"],
  [input |-> "clear the chat", expected |-> "meta_command"],
  [input |-> "start over", expected |-> "meta_command"],
  [input |-> "save this conversation", expected |-> "meta_command"],
  [input |-> "coffee that response", expected |-> "meta_command"],
  [input |-> "what files are here", expected |-> "file_list"],
  [input |-> "can you show me the code", expected |-> "file_read"],
  [input |-> "I want to make a new script", expected |-> "file_write"],
  [input |-> "help me find where I defined this function", expected |-> "search"] >>

\* runTests: a meta_command passes when one is expected, a Task when its
\* intent is the expected one, anything else when a conversation is
\* expected
testPassed(r, expected) ==
  IF r.type = "meta_command" THEN expected = "meta_command"
  ELSE IF r.type = "task" THEN r.intent = expected
  ELSE expected = "conversation"

\* the test cases with the mis-transcriptions red, right, knew, the lead,
\* exit cute, one, in stall, missed, so, older, fine, surge and coffee
misTranscribed == {1, 2, 4, 5, 6, 7, 8, 9, 10, 11, 12, 13, 18}

\* C25: for each mis-transcription of the test table, interpret classifies
\* the utterance as the test expects: a Task with the intent of the
\* intended word, or a meta_command for a UI-control phrase.
C25_TestTableExpectations ==
  done =>
    \A k \in misTranscribed :
      text = testCases[k].input => testPassed(result, testCases[k].expected)

\* C27: every intent the classifier returns leads to a Task of that intent:
\* the per-intent floors are at least 0.6, above the global floor of 0.5,
\* so a Conversation is returned only when the classifier returns none.
C27_ClassifierHitIsTask ==
  /\ \A n \in 1..Len(intentsTable) :
       Geq(intentsTable[n].confidence, Num(6, 10))
  /\ done /\ metaCommand = null =>
       /\ intent # null =>
            /\ result.type = "task"
            /\ result.intent = intent.intent
            /\ result.confidence = intent.confidence
            /\ Geq(intent.confidence, floorOf(intent.intent))
       /\ result.type = "conversation" => intent = null

\* a Task whose confidence is below every per-intent floor but the lowest
C27_Witness ==
  /\ done /\ metaCommand = null
  /\ intent # null /\ result.type = "task"
  /\ ~Geq(intent.confidence, Num(65, 100))

\* the whitespace-separated tokens of s that look like a path: they hold a
\* slash or a dot
pathLikeTokens(s) ==
  {k \in 1..Len(split(s)) :
     includes(split(s)[k], "/") \/ includes(split(s)[k], ".")}

\* s is a relative path: it starts with ./ or ../
isRelativePath(s) == startsWith(s, "./") \/ startsWith(s, "../")

\* C28: for a text whose only path-like token is a single relative path,
\* the extractor returns the one-element list with that path, and no
\* entries for fragments of the token.
C28_WholePathTokensOnly ==
  pc = "extracted" =>
    \A k \in pathLikeTokens(text) :
      pathLikeTokens(text) = {k} /\ isRelativePath(split(text)[k])
        => filePaths = <<split(text)[k]>>

\* both modes are on
bothModes(m) == m.wakeWordEnabled /\ m.conversationalMode

\* C29: wake-word mode and conversational mode are never both on, after
\* any sequence of clicks on the two mode buttons starting from both off,
\* and a click that turns one mode on while the other is on turns the
\* other off.
C29_ModesMutuallyExclusive ==
  /\ ~bothModes(client)
  /\ \A k \in 1..Len(client.toggled) : ~bothModes(client.toggled[k])
  /\ \A k \in 1..(Len(client.toggled) - 1) :
       LET before == client.toggled[k]
           after == client.toggled[k + 1]
       IN /\ before.wakeWordEnabled /\ after.conversationalMode
             => ~after.wakeWordEnabled
          /\ before.conversationalMode /\ after.wakeWordEnabled
             => ~after.conversationalMode

\* conversational mode was turned on while wake-word mode was on, and
\* wake-word mode was turned on while conversational mode was on
C29_Witness ==
  /\ \E k \in 1..(Len(client.toggled) - 1) :
       /\ client.toggled[k].wakeWordEnabled
       /\ client.toggled[k + 1].conversationalMode
  /\ \E k \in 1..(Len(client.toggled) - 1) :
       /\ client.toggled[k].conversationalMode
       /\ client.toggled[k + 1].wakeWordEnabled

\* the action names the engine can return in a MetaCommand
engineActions ==
  {metaCommandsTable[c].action : c \in 1..Len(metaCommandsTable)}

\* C26: every action the engine can return in a MetaCommand is one the
\* client acts on: the commands it receives carry engine actions, and for
\* each handleCommand has a case and performs an interface behaviour.
C26_EveryActionHandled ==
  \A k \in 1..Len(client.performed) :
    client.performed[k].action \in engineActions
      => client.performed[k].behaviour # "none"

\* the message id is in the buffer
buffered(id) ==
  \E k \in 1..Len(monitor.conversationBuffer) :
    monitor.conversationBuffer[k].id = id

\* the message id was part of the conversation text of a summarization
\* whose summary was produced and saved
summarizedIn(id) ==
  \E k \in 1..Len(runs) :
    /\ runs[k].summarized
    /\ \E j \in 1..Len(runs[k].conversationText) :
         runs[k].conversationText[j] = id

\* the processWithLlama invocations that have not returned
running == {k \in 1..Len(runs) : runs[k].at # "returned"}

\* C30: no buffered message is discarded unsummarized: every message pushed
\* is still in the buffer or was part of the conversation text of a
\* completed summarization; at most one summarization runs at a time; and
\* isProcessing is false whenever no summarization is running.
C30_NoMessageLost ==
  /\ \A id \in 1..messagesAdded : buffered(id) \/ summarizedIn(id)
  /\ Cardinality(running) <= 1
  /\ running = {} => ~monitor.isProcessing

====
